---- MODULE Spec2Model ----
(***************************************************************************)
(* A model of the plugin layer of the OpenFeature CLI:                     *)
(*   - the plugin registry          (internal/plugin/manager.go)           *)
(*   - the DevCycle OAuth client    (internal/plugin/builtin/devcycle/     *)
(*                                   client.go)                            *)
(*   - Push / Compare of the DevCycle plugin and of the default plugin     *)
(*     (internal/plugin/builtin/devcycle/plugin.go, default_plugin.go)     *)
(*   - the registry under concurrent callers (Manager.mu)                  *)
(*   - plugin instances: Configure, ValidateConfig and the operations      *)
(*   - the push command's plugin path (pushWithPlugin)                     *)
(*   - one operation of the DevCycle plugin request by request, with the   *)
(*     caller's context                                                    *)
(*   - loading and saving manifests (internal/flagset/flagset.go)          *)
(*   - process start: the init functions of the two plugin packages        *)
(* Each part has its own specification; a part's actions leave the other   *)
(* parts' variables alone.                                                 *)
(***************************************************************************)
EXTENDS Integers, Sequences, FiniteSets, TLC

VARIABLES
    plugins,      \* Manager.plugins: name -> PluginInfo
    lastOp,       \* the last Manager call and what it returned
    snapshot,     \* the map a caller got from GetAll and still holds
    accessToken,  \* Client.accessToken ("" when none)
    tokenExpiry,  \* Client.tokenExpiry
    now,          \* the wall clock read by time.Now()
    tokenMu,      \* Client.tokenMu: the caller holding the write lock, or 0
    pc,           \* per caller: position inside doRequest
    blocked,      \* per caller: it had to wait in tokenMu.Lock() during the current doRequest
    hit,          \* per caller: outcome of the validity check of authenticate
    exch,         \* per caller: OAuth exchanges issued within the current doRequest
    authCount,    \* OAuth exchanges issued on this client so far
    firstAuth,    \* outcome of the first OAuth exchange of this client
    sent,         \* per caller: the bearer token of the last API request sent
    backend,      \* which plugin is configured: "devcycle" or "default"
    local,        \* the local flagset handed to Push / Compare
    remote,       \* the remote service's flags, by key
    hist,         \* the Push / Compare calls made so far, with their results
    mu,           \* Manager.mu: the goroutine holding the write lock (or 0) and the read holders
    gor,          \* per goroutine: its Manager call, where it is in it, and its result
    instances,    \* the plugin instances returned by Get, in order of creation
    servers,      \* per backend, the remote service's flags by key
    lastCall,     \* the last call on a plugin instance: its outcome and the requests it issued
    cmd,          \* the last run of the push command's plugin path
    run,          \* the Pull, Push or Compare in progress on the DevCycle plugin, step by step
    wire,         \* the HTTP requests sent so far and the responses they got
    manifest,     \* the manifest document being loaded or saved
    flagset,      \* the Flagset a manifest is loaded into or saved from
    boot          \* how far the process has got with its package initialisation

managerVars == <<plugins, lastOp, snapshot>>
clientVars  == <<accessToken, tokenExpiry, now, tokenMu, pc, blocked, hit, exch, authCount, firstAuth, sent>>
syncVars    == <<backend, local, remote, hist>>
lockVars    == <<mu, gor>>
instanceVars == <<instances, servers, lastCall>>
commandVars == <<cmd>>
runVars     == <<run, wire>>
fileVars    == <<manifest, flagset>>
bootVars    == <<boot>>
vars        == <<plugins, lastOp, snapshot, accessToken, tokenExpiry, now, tokenMu, pc, blocked, hit, exch,
                 authCount, firstAuth, sent, backend, local, remote, hist,
                 mu, gor, instances, servers, lastCall, cmd, run, wire, manifest, flagset, boot>>

Range(s) == {s[i] : i \in DOMAIN s}

(***************************************************************************)
(* Part 1: the plugin registry (Manager)                                   *)
(***************************************************************************)

\* The factories handed to Register.
NumFactories == 5
Factories == 1..NumFactories

\* Plugin names in ascending (sort.Strings) order; "" is the empty name.
NameOrder == <<"", "default", "devcycle">>
Names == Range(NameOrder)
Rank(n) == CHOOSE i \in DOMAIN NameOrder : NameOrder[i] = n

StabilityOrder == <<"experimental", "beta", "stable">>

\* What factory f's plugin reports from Metadata(): factories 1 and 4 both
\* report "default", 2 and 5 both report "devcycle", 3 reports the empty name.
Metadata(f) ==
    [Name        |-> NameOrder[(f % Len(NameOrder)) + 1],
     Description |-> IF f <= Len(NameOrder) THEN "first build" ELSE "second build",
     Stability   |-> StabilityOrder[(f % Len(StabilityOrder)) + 1]]

PluginInfo(f) ==
    [Name        |-> Metadata(f).Name,
     Description |-> Metadata(f).Description,
     Stability   |-> Metadata(f).Stability,
     Factory     |-> f]

\* Names in descending order: one of the orders `range m.plugins` may produce.
RECURSIVE RangeOrder(_)
RangeOrder(S) ==
    IF S = {} THEN <<>>
    ELSE LET last == CHOOSE n \in S : \A o \in S : Rank(n) >= Rank(o)
         IN  <<last>> \o RangeOrder(S \ {last})

\* sort.Strings over a set of names
RECURSIVE SortStrings(_)
SortStrings(S) ==
    IF S = {} THEN <<>>
    ELSE LET least == CHOOSE n \in S : \A o \in S : Rank(n) <= Rank(o)
         IN  <<least>> \o SortStrings(S \ {least})

\* A listPluginNames without its sort.Strings call.
listPluginNamesUnsorted(m) == RangeOrder(DOMAIN m)
listPluginNames(m) == SortStrings(DOMAIN m)
List(m) == listPluginNames(m)
GetAll(m) == [k \in DOMAIN m |-> m[k]]
HasPlugin(m, name) == name \in DOMAIN m

NoOp == [op |-> "none", arg |-> 0, err |-> FALSE, out |-> 0]

\* PluginInfo{}
ZeroPluginInfo == [Name |-> "", Description |-> "", Stability |-> "", Factory |-> 0]

\* The caller holds no map yet. alias says whether the map the caller holds is
\* Manager.plugins itself; GetAll makes a new map, so it never is.
NoSnapshot == [held |-> FALSE, alias |-> FALSE, map |-> <<>>]
\* What the caller finds in the map it holds.
SnapshotView == IF snapshot.alias THEN plugins ELSE snapshot.map

InitManager ==
    /\ plugins = <<>>
    /\ lastOp = NoOp
    /\ snapshot = NoSnapshot

\* A Register that replaces an existing entry instead of rejecting it.
RegisterOverwrite(factory) ==
    LET meta == Metadata(factory) IN
    /\ IF meta.Name = ""
       THEN /\ plugins' = plugins
            /\ lastOp' = [op |-> "Register", arg |-> factory, err |-> TRUE, out |-> 0]
       ELSE /\ plugins' = [n \in DOMAIN plugins \cup {meta.Name} |->
                              IF n = meta.Name THEN PluginInfo(factory) ELSE plugins[n]]
            /\ lastOp' = [op |-> "Register", arg |-> factory, err |-> FALSE, out |-> 0]
    /\ UNCHANGED <<snapshot, clientVars, syncVars, lockVars, instanceVars, commandVars, runVars, fileVars, bootVars>>

Register(factory) ==
    LET meta == Metadata(factory) IN
    /\ IF meta.Name = "" \/ meta.Name \in DOMAIN plugins
       THEN /\ plugins' = plugins
            /\ lastOp' = [op |-> "Register", arg |-> factory, err |-> TRUE, out |-> 0]
       ELSE /\ plugins' = [n \in DOMAIN plugins \cup {meta.Name} |->
                              IF n = meta.Name THEN PluginInfo(factory) ELSE plugins[n]]
            /\ lastOp' = [op |-> "Register", arg |-> factory, err |-> FALSE, out |-> 0]
    /\ UNCHANGED <<snapshot, clientVars, syncVars, lockVars, instanceVars, commandVars, runVars, fileVars, bootVars>>

\* A Get that falls back to the first registered plugin when the name is unknown.
GetOrFirst(name) ==
    /\ lastOp' = IF name \in DOMAIN plugins
                 THEN [op |-> "Get", arg |-> name, err |-> FALSE, out |-> plugins[name].Factory]
                 ELSE IF plugins # <<>>
                 THEN [op |-> "Get", arg |-> name, err |-> FALSE,
                       out |-> plugins[listPluginNames(plugins)[1]].Factory]
                 ELSE [op |-> "Get", arg |-> name, err |-> TRUE, out |-> 0]
    /\ UNCHANGED <<plugins, snapshot, clientVars, syncVars, lockVars, instanceVars, commandVars, runVars, fileVars, bootVars>>

\* Get returns info.Factory(): out is the factory that was invoked.
Get(name) ==
    /\ lastOp' = IF name \in DOMAIN plugins
                 THEN [op |-> "Get", arg |-> name, err |-> FALSE, out |-> plugins[name].Factory]
                 ELSE [op |-> "Get", arg |-> name, err |-> TRUE, out |-> 0]
    /\ UNCHANGED <<plugins, snapshot, clientVars, syncVars, lockVars, instanceVars, commandVars, runVars, fileVars, bootVars>>

\* GetInfo returns the registered PluginInfo and calls no factory.
GetInfo(name) ==
    /\ lastOp' = IF name \in DOMAIN plugins
                 THEN [op |-> "GetInfo", arg |-> name, err |-> FALSE, out |-> plugins[name]]
                 ELSE [op |-> "GetInfo", arg |-> name, err |-> TRUE, out |-> ZeroPluginInfo]
    /\ UNCHANGED <<plugins, snapshot, clientVars, syncVars, lockVars, instanceVars, commandVars, runVars, fileVars, bootVars>>

ListCall ==
    /\ lastOp' = [op |-> "List", arg |-> 0, err |-> FALSE, out |-> List(plugins)]
    /\ UNCHANGED <<plugins, snapshot, clientVars, syncVars, lockVars, instanceVars, commandVars, runVars, fileVars, bootVars>>

\* A GetAll that returns m.plugins itself.
GetAllCallAliasing ==
    /\ lastOp' = [op |-> "GetAll", arg |-> 0, err |-> FALSE, out |-> plugins]
    /\ snapshot' = [held |-> TRUE, alias |-> TRUE, map |-> <<>>]
    /\ UNCHANGED <<plugins, clientVars, syncVars, lockVars, instanceVars, commandVars, runVars, fileVars, bootVars>>

\* GetAll: the caller now holds the new map.
GetAllCall ==
    /\ lastOp' = [op |-> "GetAll", arg |-> 0, err |-> FALSE, out |-> GetAll(plugins)]
    /\ snapshot' = [held |-> TRUE, alias |-> FALSE, map |-> GetAll(plugins)]
    /\ UNCHANGED <<plugins, clientVars, syncVars, lockVars, instanceVars, commandVars, runVars, fileVars, bootVars>>

\* The caller writes result[name] = PluginInfo{...} into the map it holds.
SnapshotPut(name, factory) ==
    /\ snapshot.held
    /\ LET entry == [PluginInfo(factory) EXCEPT !.Name = name]
           put(m) == [n \in DOMAIN m \cup {name} |-> IF n = name THEN entry ELSE m[n]]
       IN  IF snapshot.alias
           THEN plugins' = put(plugins) /\ snapshot' = snapshot
           ELSE plugins' = plugins /\ snapshot' = [snapshot EXCEPT !.map = put(@)]
    /\ lastOp' = [op |-> "SnapshotPut", arg |-> name, err |-> FALSE, out |-> factory]
    /\ UNCHANGED <<clientVars, syncVars, lockVars, instanceVars, commandVars, runVars, fileVars, bootVars>>

\* The caller runs delete(result, name) on the map it holds.
SnapshotDelete(name) ==
    /\ snapshot.held
    /\ LET del(m) == [n \in DOMAIN m \ {name} |-> m[n]]
       IN  IF snapshot.alias
           THEN plugins' = del(plugins) /\ snapshot' = snapshot
           ELSE plugins' = plugins /\ snapshot' = [snapshot EXCEPT !.map = del(@)]
    /\ lastOp' = [op |-> "SnapshotDelete", arg |-> name, err |-> FALSE, out |-> 0]
    /\ UNCHANGED <<clientVars, syncVars, lockVars, instanceVars, commandVars, runVars, fileVars, bootVars>>

HasPluginCall(name) ==
    /\ lastOp' = [op |-> "HasPlugin", arg |-> name, err |-> FALSE, out |-> HasPlugin(plugins, name)]
    /\ UNCHANGED <<plugins, snapshot, clientVars, syncVars, lockVars, instanceVars, commandVars, runVars, fileVars, bootVars>>

NextManager ==
    \/ \E f \in Factories : Register(f)
    \/ \E n \in Names : Get(n)
    \/ \E n \in Names : GetInfo(n)
    \/ ListCall
    \/ GetAllCall
    \/ \E n \in Names : HasPluginCall(n)
    \/ \E n \in Names \ {""}, f \in Factories : SnapshotPut(n, f)
    \/ \E n \in Names : SnapshotDelete(n)

(***************************************************************************)
(* Part 2: the DevCycle client's token cache (authenticate / doRequest)    *)
(***************************************************************************)

\* Concurrent callers of doRequest on one Client.
NumCallers == 2
Callers == 1..NumCallers

\* The clock runs from 0 (the moment NewClient returns) to MaxTime, in seconds.
MaxTime == 3
\* OAuth exchanges after which no new request is started.
MaxAuth == 2

\* time.Time{}: the zero tokenExpiry of a new Client lies before every clock reading.
ZeroTime == -1
\* authenticate shortens the token's life by 60 seconds.
ExpiryBuffer == 60

\* access_token values the token endpoint may answer with ("" when the field is missing).
TokenValues == {"", "tokA", "tokB"}
\* expires_in values the token endpoint may answer with.
ExpiresInValues == {0, ExpiryBuffer, ExpiryBuffer + 1, ExpiryBuffer + 2, ExpiryBuffer + MaxTime + 1}

NotSent == "<not sent>"
NoAuth == [done |-> FALSE, ok |-> FALSE, tok |-> "", expiry |-> ZeroTime]

InitClient ==
    /\ accessToken = ""
    /\ tokenExpiry = ZeroTime
    /\ now = 0
    /\ tokenMu = 0
    /\ pc = [c \in Callers |-> "idle"]
    /\ blocked = [c \in Callers |-> FALSE]
    /\ hit = [c \in Callers |-> FALSE]
    /\ exch = [c \in Callers |-> 0]
    /\ authCount = 0
    /\ firstAuth = NoAuth
    /\ sent = [c \in Callers |-> NotSent]

\* c.accessToken != "" && time.Now().Before(c.tokenExpiry)
TokenValid == accessToken # "" /\ now < tokenExpiry

\* doRequest is entered; authenticate blocks in c.tokenMu.Lock().
DoRequest(c) ==
    /\ pc[c] = "idle"
    /\ authCount < MaxAuth
    /\ pc' = [pc EXCEPT ![c] = "lock"]
    /\ blocked' = [blocked EXCEPT ![c] = FALSE]
    /\ hit' = [hit EXCEPT ![c] = FALSE]
    /\ exch' = [exch EXCEPT ![c] = 0]
    /\ sent' = [sent EXCEPT ![c] = NotSent]
    /\ UNCHANGED <<accessToken, tokenExpiry, now, tokenMu, authCount, firstAuth>>
    /\ UNCHANGED <<managerVars, syncVars, lockVars, instanceVars, commandVars, runVars, fileVars, bootVars>>

\* c.tokenMu.Lock() finds the lock taken: the caller waits.
AuthBlock(c) ==
    /\ pc[c] = "lock"
    /\ tokenMu # 0
    /\ ~blocked[c]
    /\ blocked' = [blocked EXCEPT ![c] = TRUE]
    /\ UNCHANGED <<accessToken, tokenExpiry, now, tokenMu, pc, hit, exch, authCount, firstAuth, sent>>
    /\ UNCHANGED <<managerVars, syncVars, lockVars, instanceVars, commandVars, runVars, fileVars, bootVars>>

\* An authenticate that does not wait for the lock.
AuthLockNoExclusion(c) ==
    /\ pc[c] = "lock"
    /\ tokenMu' = c
    /\ pc' = [pc EXCEPT ![c] = "check"]
    /\ UNCHANGED <<accessToken, tokenExpiry, now, hit, exch, authCount, firstAuth, sent, blocked>>
    /\ UNCHANGED <<managerVars, syncVars, lockVars, instanceVars, commandVars, runVars, fileVars, bootVars>>

\* c.tokenMu.Lock() succeeds.
AuthLock(c) ==
    /\ pc[c] = "lock"
    /\ tokenMu = 0
    /\ tokenMu' = c
    /\ pc' = [pc EXCEPT ![c] = "check"]
    /\ UNCHANGED <<accessToken, tokenExpiry, now, hit, exch, authCount, firstAuth, sent, blocked>>
    /\ UNCHANGED <<managerVars, syncVars, lockVars, instanceVars, commandVars, runVars, fileVars, bootVars>>

\* An authenticate that never takes the cached token and always asks for a new one.
AuthCheckAlwaysRefresh(c) ==
    /\ pc[c] = "check"
    /\ hit' = [hit EXCEPT ![c] = TokenValid]
    /\ pc' = [pc EXCEPT ![c] = "exchange"]
    /\ exch' = [exch EXCEPT ![c] = @ + 1]
    /\ authCount' = authCount + 1
    /\ UNCHANGED <<accessToken, tokenExpiry, now, tokenMu, firstAuth, sent, blocked>>
    /\ UNCHANGED <<managerVars, syncVars, lockVars, instanceVars, commandVars, runVars, fileVars, bootVars>>

\* The validity check under the lock: a valid token returns nil (and unlocks),
\* anything else sends the OAuth request with the lock still held.
AuthCheck(c) ==
    /\ pc[c] = "check"
    /\ hit' = [hit EXCEPT ![c] = TokenValid]
    /\ IF TokenValid
       THEN /\ pc' = [pc EXCEPT ![c] = "send"]
            /\ tokenMu' = 0
            /\ UNCHANGED <<exch, authCount>>
       ELSE /\ pc' = [pc EXCEPT ![c] = "exchange"]
            /\ exch' = [exch EXCEPT ![c] = @ + 1]
            /\ authCount' = authCount + 1
            /\ UNCHANGED tokenMu
    /\ UNCHANGED <<accessToken, tokenExpiry, now, firstAuth, sent, blocked>>
    /\ UNCHANGED <<managerVars, syncVars, lockVars, instanceVars, commandVars, runVars, fileVars, bootVars>>

\* The exchange fails (transport error, status other than 200, undecodable body):
\* authenticate returns the error, doRequest returns it, nothing is sent.
AuthFail(c) ==
    /\ pc[c] = "exchange"
    /\ pc' = [pc EXCEPT ![c] = "idle"]
    /\ tokenMu' = 0
    /\ firstAuth' = IF firstAuth.done THEN firstAuth
                    ELSE [done |-> TRUE, ok |-> FALSE, tok |-> "", expiry |-> ZeroTime]
    /\ UNCHANGED <<accessToken, tokenExpiry, now, hit, exch, authCount, sent, blocked>>
    /\ UNCHANGED <<managerVars, syncVars, lockVars, instanceVars, commandVars, runVars, fileVars, bootVars>>

\* The exchange answers 200 with access_token tok and expires_in n.
AuthOk(c, tok, n) ==
    /\ pc[c] = "exchange"
    /\ accessToken' = tok
    /\ tokenExpiry' = now + (n - ExpiryBuffer)
    /\ pc' = [pc EXCEPT ![c] = "send"]
    /\ tokenMu' = 0
    /\ firstAuth' = IF firstAuth.done THEN firstAuth
                    ELSE [done |-> TRUE, ok |-> TRUE, tok |-> tok,
                          expiry |-> now + (n - ExpiryBuffer)]
    /\ UNCHANGED <<now, hit, exch, authCount, sent, blocked>>
    /\ UNCHANGED <<managerVars, syncVars, lockVars, instanceVars, commandVars, runVars, fileVars, bootVars>>

\* The rest of doRequest: read the token under RLock and send the API request.
Send(c) ==
    /\ pc[c] = "send"
    /\ tokenMu = 0
    /\ sent' = [sent EXCEPT ![c] = accessToken]
    /\ pc' = [pc EXCEPT ![c] = "idle"]
    /\ UNCHANGED <<accessToken, tokenExpiry, now, tokenMu, hit, exch, authCount, firstAuth, blocked>>
    /\ UNCHANGED <<managerVars, syncVars, lockVars, instanceVars, commandVars, runVars, fileVars, bootVars>>

Tick ==
    /\ now < MaxTime
    /\ now' = now + 1
    /\ UNCHANGED <<accessToken, tokenExpiry, tokenMu, pc, hit, exch, authCount, firstAuth, sent, blocked>>
    /\ UNCHANGED <<managerVars, syncVars, lockVars, instanceVars, commandVars, runVars, fileVars, bootVars>>

NextClient ==
    \/ \E c \in Callers : DoRequest(c)
    \/ \E c \in Callers : AuthBlock(c)
    \/ \E c \in Callers : AuthLock(c)
    \/ \E c \in Callers : AuthCheck(c)
    \/ \E c \in Callers : AuthFail(c)
    \/ \E c \in Callers, tok \in TokenValues, n \in ExpiresInValues : AuthOk(c, tok, n)
    \/ \E c \in Callers : Send(c)
    \/ Tick

(***************************************************************************)
(* Part 3: Push and Compare of the DevCycle plugin and the default plugin  *)
(***************************************************************************)

\* flagset.FlagType (iota)
UnknownFlagType == 0
IntType == 1
FloatType == 2
BoolType == 3
StringType == 4
ObjectType == 5

\* Push / Compare calls made in one run.
MaxOps == 2

\* Flag keys in ascending order.
KeyOrder == <<"alpha", "beta">>
Keys == Range(KeyOrder)
KeyRank(k) == CHOOSE i \in DOMAIN KeyOrder : KeyOrder[i] = k

\* Default values, named by their Go value after JSON decoding, and what
\* fmt.Sprintf("%v", v) prints for each: a string may print like a bool.
Values == {"bool(false)", "bool(true)", "float64(1)", "string(false)"}
Sprintf_v(v) ==
    CASE v = "bool(false)"   -> "false"
      [] v = "bool(true)"    -> "true"
      [] v = "float64(1)"    -> "1"
      [] v = "string(false)" -> "false"

\* (type, default value) of the local flags and descriptions on either side.
LocalShapes == {<<BoolType, "bool(false)">>, <<BoolType, "bool(true)">>, <<IntType, "float64(1)">>}
LocalDescriptions == {"d1"}
RemoteDescriptions == {"d1", "d2"}
\* DevCycle variables: the four types of the API and one the plugin does not know.
DevCycleShapes == {<<"Boolean", "bool(false)">>, <<"Number", "float64(1)">>,
                   <<"String", "string(false)">>, <<"Percentage", "float64(1)">>}
\* Flags of a remote manifest (default plugin).
ManifestShapes == {<<BoolType, "bool(false)">>, <<FloatType, "float64(1)">>,
                   <<IntType, "float64(1)">>, <<StringType, "string(false)">>}

Flag(k, shape, d) == [Key |-> k, Type |-> shape[1], Description |-> d, DefaultValue |-> shape[2]]

RECURSIVE SortKeys(_)
SortKeys(S) ==
    IF S = {} THEN <<>>
    ELSE LET least == CHOOSE k \in S : \A o \in S : KeyRank(k) <= KeyRank(o)
         IN  <<least>> \o SortKeys(S \ {least})

\* Local flagsets as the loader hands them over: unique keys, sorted by key.
LocalFlagsets ==
    UNION {{[i \in DOMAIN SortKeys(S) |-> m[SortKeys(S)[i]]] :
              m \in {f \in [S -> {Flag(k, sh, d) : k \in S, sh \in LocalShapes, d \in LocalDescriptions}] :
                        \A k \in S : f[k].Key = k}} :
           S \in SUBSET Keys}

RemoteStates(shapes) ==
    UNION {{f \in [S -> {Flag(k, sh, d) : k \in S, sh \in shapes, d \in RemoteDescriptions}] :
              \A k \in S : f[k].Key = k} :
           S \in SUBSET Keys}

KeysOf(flags) == {flags[i].Key : i \in DOMAIN flags}
Perms(S) == {p \in [1..Cardinality(S) -> S] : \A i, j \in 1..Cardinality(S) : p[i] = p[j] => i = j}

\* devCycleTypeToFlagType: ok is FALSE for the error return
devCycleTypeToFlagType(dcType) ==
    CASE dcType = "Boolean" -> [ok |-> TRUE, type |-> BoolType]
      [] dcType = "String"  -> [ok |-> TRUE, type |-> StringType]
      [] dcType = "Number"  -> [ok |-> TRUE, type |-> FloatType]
      [] dcType = "JSON"    -> [ok |-> TRUE, type |-> ObjectType]
      [] OTHER              -> [ok |-> FALSE, type |-> UnknownFlagType]

flagTypeToDevCycleType(ft) ==
    CASE ft = BoolType   -> "Boolean"
      [] ft = StringType -> "String"
      [] ft = IntType    -> "Number"
      [] ft = FloatType  -> "Number"
      [] ft = ObjectType -> "JSON"
      [] OTHER           -> "String"

variableToFlag(v) ==
    [Key |-> v.Key, Type |-> devCycleTypeToFlagType(v.Type).type,
     Description |-> v.Description, DefaultValue |-> v.DefaultValue]

flagToVariable(flag) ==
    [Key |-> flag.Key, Type |-> flagTypeToDevCycleType(flag.Type),
     Description |-> flag.Description, DefaultValue |-> flag.DefaultValue]

variableNeedsUpdate(existing, new) ==
    \/ existing.Type # new.Type
    \/ existing.Description # new.Description
    \/ Sprintf_v(existing.DefaultValue) # Sprintf_v(new.DefaultValue)

flagsEqual(a, b) ==
    /\ a.Key = b.Key
    /\ a.Type = b.Type
    /\ a.Description = b.Description
    /\ Sprintf_v(a.DefaultValue) = Sprintf_v(b.DefaultValue)

\* The flags of Plugin.Pull: the variables in the order of the answer, those
\* of a type the plugin does not know left out.
PulledFlags(variables) ==
    LET known == SelectSeq(variables, LAMBDA v : devCycleTypeToFlagType(v.Type).ok)
    IN  [i \in DOMAIN known |-> variableToFlag(known[i])]

\* ---- the DevCycle Management API calls of the client; a call whose key is in
\* `fails` comes back with an error and changes nothing on the server ----

Request(method, path, key, body) == [method |-> method, path |-> path, key |-> key, body |-> body]

\* GET /v1/projects/{project}/variables
GetVariables(server, failing) ==
    [err |-> failing,
     variables |-> IF failing THEN <<>> ELSE server,
     req |-> Request("GET", "variables", "", <<>>)]

\* POST /v2/projects/{project}/features: the feature carries the whole variable
CreateFeatureWithVariable(server, variable, failing) ==
    [err |-> failing,
     server |-> IF failing THEN server
                ELSE [k \in DOMAIN server \cup {variable.Key} |->
                        IF k = variable.Key
                        THEN [Key |-> variable.Key, Type |-> variable.Type,
                              Description |-> variable.Description,
                              DefaultValue |-> variable.DefaultValue]
                        ELSE server[k]],
     req |-> Request("POST", "features", variable.Key, variable)]

\* PATCH /v1/projects/{project}/variables/{key}: the body is {"description": ...} only
UpdateVariable(server, variableKey, variable, failing) ==
    [err |-> failing,
     server |-> IF failing \/ variableKey \notin DOMAIN server THEN server
                ELSE [server EXCEPT ![variableKey].Description = variable.Description],
     req |-> Request("PATCH", "variables", variableKey, [description |-> variable.Description])]

\* ---- Plugin.Push ----

EmptyPushResult == [Created |-> <<>>, Updated |-> <<>>, Deleted |-> <<>>, Unchanged |-> <<>>, Errors |-> <<>>]
NoResult == "nil"

\* The state of one Push while it runs: the result under construction, the
\* server, the requests issued and the keys whose create or update failed.
StartPush(server, fetch) ==
    [result |-> EmptyPushResult, server |-> server, reqs |-> <<fetch>>, failed |-> {}]

\* A loop body that sends the create or update also on a dry run.
DevCyclePushFlagIgnoringDryRun(acc, flag, remoteMap, dryRun, fails) ==
    LET variable == flagToVariable(flag) IN
    IF flag.Key \in DOMAIN remoteMap
    THEN IF variableNeedsUpdate(remoteMap[flag.Key], variable)
         THEN LET call == UpdateVariable(acc.server, flag.Key, variable, flag.Key \in fails) IN
              IF call.err
              THEN [acc EXCEPT !.reqs = Append(@, call.req),
                               !.failed = @ \cup {flag.Key},
                               !.result.Errors = Append(@, [op |-> "update", key |-> flag.Key])]
              ELSE [acc EXCEPT !.reqs = Append(@, call.req),
                               !.server = call.server,
                               !.result.Updated = Append(@, flag)]
         ELSE [acc EXCEPT !.result.Unchanged = Append(@, flag)]
    ELSE LET call == CreateFeatureWithVariable(acc.server, variable, flag.Key \in fails) IN
         IF call.err
         THEN [acc EXCEPT !.reqs = Append(@, call.req),
                          !.failed = @ \cup {flag.Key},
                          !.result.Errors = Append(@, [op |-> "create", key |-> flag.Key])]
         ELSE [acc EXCEPT !.reqs = Append(@, call.req),
                          !.server = call.server,
                          !.result.Created = Append(@, flag)]

\* A loop body that records Created and Updated only when the call was really made.
DevCyclePushFlagDryRunUnreported(acc, flag, remoteMap, dryRun, fails) ==
    LET variable == flagToVariable(flag) IN
    IF flag.Key \in DOMAIN remoteMap
    THEN IF variableNeedsUpdate(remoteMap[flag.Key], variable)
         THEN IF ~dryRun
              THEN LET call == UpdateVariable(acc.server, flag.Key, variable, flag.Key \in fails) IN
                   IF call.err
                   THEN [acc EXCEPT !.reqs = Append(@, call.req),
                                    !.failed = @ \cup {flag.Key},
                                    !.result.Errors = Append(@, [op |-> "update", key |-> flag.Key])]
                   ELSE [acc EXCEPT !.reqs = Append(@, call.req),
                                    !.server = call.server,
                                    !.result.Updated = Append(@, flag)]
              ELSE acc
         ELSE [acc EXCEPT !.result.Unchanged = Append(@, flag)]
    ELSE IF ~dryRun
         THEN LET call == CreateFeatureWithVariable(acc.server, variable, flag.Key \in fails) IN
              IF call.err
              THEN [acc EXCEPT !.reqs = Append(@, call.req),
                               !.failed = @ \cup {flag.Key},
                               !.result.Errors = Append(@, [op |-> "create", key |-> flag.Key])]
              ELSE [acc EXCEPT !.reqs = Append(@, call.req),
                               !.server = call.server,
                               !.result.Created = Append(@, flag)]
         ELSE acc

\* The body of `for _, flag := range local.Flags` in Plugin.Push
DevCyclePushFlag(acc, flag, remoteMap, dryRun, fails) ==
    LET variable == flagToVariable(flag) IN
    IF flag.Key \in DOMAIN remoteMap
    THEN IF variableNeedsUpdate(remoteMap[flag.Key], variable)
         THEN IF ~dryRun
              THEN LET call == UpdateVariable(acc.server, flag.Key, variable, flag.Key \in fails) IN
                   IF call.err
                   THEN [acc EXCEPT !.reqs = Append(@, call.req),
                                    !.failed = @ \cup {flag.Key},
                                    !.result.Errors = Append(@, [op |-> "update", key |-> flag.Key])]
                   ELSE [acc EXCEPT !.reqs = Append(@, call.req),
                                    !.server = call.server,
                                    !.result.Updated = Append(@, flag)]
              ELSE [acc EXCEPT !.result.Updated = Append(@, flag)]
         ELSE [acc EXCEPT !.result.Unchanged = Append(@, flag)]
    ELSE IF ~dryRun
         THEN LET call == CreateFeatureWithVariable(acc.server, variable, flag.Key \in fails) IN
              IF call.err
              THEN [acc EXCEPT !.reqs = Append(@, call.req),
                               !.failed = @ \cup {flag.Key},
                               !.result.Errors = Append(@, [op |-> "create", key |-> flag.Key])]
              ELSE [acc EXCEPT !.reqs = Append(@, call.req),
                               !.server = call.server,
                               !.result.Created = Append(@, flag)]
         ELSE [acc EXCEPT !.result.Created = Append(@, flag)]

RECURSIVE DevCyclePushLoop(_, _, _, _, _)
DevCyclePushLoop(acc, flags, remoteMap, dryRun, fails) ==
    IF flags = <<>> THEN acc
    ELSE DevCyclePushLoop(DevCyclePushFlag(acc, Head(flags), remoteMap, dryRun, fails),
                          Tail(flags), remoteMap, dryRun, fails)

\* A Push that mirrors the local flagset: remote variables without a local flag
\* are deleted and reported in Deleted.
DevCyclePushPruning(flags, server, dryRun, fetchFails, fails) ==
    LET fetch == GetVariables(server, fetchFails) IN
    IF fetch.err
    THEN [err |-> TRUE, result |-> NoResult, server |-> server, reqs |-> <<fetch.req>>, failed |-> {}]
    ELSE LET remoteMap == fetch.variables
             done == DevCyclePushLoop(StartPush(server, fetch.req), flags, remoteMap, dryRun, fails)
             extra == SortKeys(DOMAIN remoteMap \ KeysOf(flags))
         IN  [err |-> FALSE,
              result |-> [done.result EXCEPT !.Deleted = [i \in DOMAIN extra |-> remoteMap[extra[i]]]],
              server |-> IF dryRun THEN done.server
                         ELSE [k \in DOMAIN done.server \ Range(extra) |-> done.server[k]],
              reqs |-> IF dryRun THEN done.reqs
                       ELSE done.reqs \o [i \in DOMAIN extra |-> Request("DELETE", "variables", extra[i], <<>>)],
              failed |-> done.failed]

\* Plugin.Push on a configured plugin: what it returns and what it leaves behind.
DevCyclePush(flags, server, dryRun, fetchFails, fails) ==
    LET fetch == GetVariables(server, fetchFails) IN
    IF fetch.err
    THEN [err |-> TRUE, result |-> NoResult, server |-> server, reqs |-> <<fetch.req>>, failed |-> {}]
    ELSE LET remoteMap == fetch.variables
             done == DevCyclePushLoop(StartPush(server, fetch.req), flags, remoteMap, dryRun, fails)
         IN  [err |-> FALSE, result |-> done.result, server |-> done.server,
              reqs |-> done.reqs, failed |-> done.failed]

\* ---- Plugin.Compare ----

\* remoteMap of Plugin.Compare: variables whose type does not convert are skipped
DevCycleRemoteMap(variables) ==
    [k \in {x \in DOMAIN variables : devCycleTypeToFlagType(variables[x].Type).ok} |->
        variableToFlag(variables[k])]

FlagsAt(order, map) == [i \in DOMAIN order |-> map[order[i]]]

\* The two loops of Plugin.Compare; localOrder and remoteOrder are the orders in
\* which the two `range` statements happen to walk their maps.
DevCycleDiff(localMap, remoteMap, localOrder, remoteOrder) ==
    [Added     |-> FlagsAt(SelectSeq(localOrder, LAMBDA k : k \notin DOMAIN remoteMap), localMap),
     Modified  |-> LET ks == SelectSeq(localOrder,
                                LAMBDA k : k \in DOMAIN remoteMap /\ ~flagsEqual(localMap[k], remoteMap[k]))
                   IN  [i \in DOMAIN ks |-> [Key |-> ks[i], Local |-> localMap[ks[i]], Remote |-> remoteMap[ks[i]]]],
     Unchanged |-> FlagsAt(SelectSeq(localOrder,
                                LAMBDA k : k \in DOMAIN remoteMap /\ flagsEqual(localMap[k], remoteMap[k])), localMap),
     Removed   |-> FlagsAt(SelectSeq(remoteOrder, LAMBDA k : k \notin DOMAIN localMap), remoteMap)]

\* for _, flag := range flags { m[flag.Key] = flag }: the last flag of a key stays
FlagMap(flags) ==
    [k \in KeysOf(flags) |->
        flags[CHOOSE i \in DOMAIN flags :
                 flags[i].Key = k /\ \A j \in DOMAIN flags : flags[j].Key = k => j <= i]]

\* A Compare that writes the local description to every modified variable.
DevCycleCompareRepairing(flags, server, fetchFails, localOrder, remoteOrder) ==
    LET fetch == GetVariables(server, fetchFails) IN
    IF fetch.err
    THEN [err |-> TRUE, result |-> NoResult, server |-> server, reqs |-> <<fetch.req>>]
    ELSE LET diff == DevCycleDiff(FlagMap(flags), DevCycleRemoteMap(fetch.variables), localOrder, remoteOrder)
             fixes == [i \in DOMAIN diff.Modified |->
                         UpdateVariable(server, diff.Modified[i].Key, flagToVariable(diff.Modified[i].Local), FALSE)]
         IN [err |-> FALSE, result |-> diff,
             server |-> [k \in DOMAIN server |->
                           IF \E i \in DOMAIN fixes : fixes[i].req.key = k
                           THEN [server[k] EXCEPT !.Description = FlagMap(flags)[k].Description]
                           ELSE server[k]],
             reqs |-> <<fetch.req>> \o [i \in DOMAIN fixes |-> fixes[i].req]]

\* Plugin.Compare on a configured plugin
DevCycleCompare(flags, server, fetchFails, localOrder, remoteOrder) ==
    LET fetch == GetVariables(server, fetchFails) IN
    IF fetch.err
    THEN [err |-> TRUE, result |-> NoResult, server |-> server, reqs |-> <<fetch.req>>]
    ELSE [err |-> FALSE,
          result |-> DevCycleDiff(FlagMap(flags), DevCycleRemoteMap(fetch.variables), localOrder, remoteOrder),
          server |-> server,
          reqs |-> <<fetch.req>>]

\* ---- the default plugin; its sync.Client speaks the Manifest Management API ----

\* GET /manifest: the remote flagset, sorted by key as Flagset.UnmarshalJSON leaves it
PullFlags(server, failing) ==
    [err |-> failing,
     flags |-> IF failing THEN <<>> ELSE FlagsAt(SortKeys(DOMAIN server), server),
     req |-> Request("GET", "manifest", "", <<>>)]

\* POST /manifest/flags creates one flag, PUT /manifest/flags/{key} replaces one
ManifestWrite(server, method, flag, failing) ==
    [err |-> failing,
     server |-> IF failing THEN server
                ELSE [k \in DOMAIN server \cup {flag.Key} |-> IF k = flag.Key THEN flag ELSE server[k]],
     req |-> Request(method, "manifest/flags", flag.Key, flag)]

syncFlagsEqual(a, b) ==
    /\ a.Key = b.Key
    /\ a.Type = b.Type
    /\ a.Description = b.Description
    /\ Sprintf_v(a.DefaultValue) = Sprintf_v(b.DefaultValue)

\* One flag of sync.Client.PushFlags: classify, send unless dry run, and on a
\* failure note it in the error list and go on.
PushFlagsStep(acc, flag, remoteMap, dryRun, fails) ==
    IF flag.Key \in DOMAIN remoteMap
    THEN IF ~syncFlagsEqual(flag, remoteMap[flag.Key])
         THEN IF ~dryRun
              THEN LET call == ManifestWrite(acc.server, "PUT", flag, flag.Key \in fails) IN
                   IF call.err
                   THEN [acc EXCEPT !.reqs = Append(@, call.req),
                                    !.failed = @ \cup {flag.Key},
                                    !.result.Errors = Append(@, [op |-> "update", key |-> flag.Key])]
                   ELSE [acc EXCEPT !.reqs = Append(@, call.req),
                                    !.server = call.server,
                                    !.result.Updated = Append(@, flag)]
              ELSE [acc EXCEPT !.result.Updated = Append(@, flag)]
         ELSE [acc EXCEPT !.result.Unchanged = Append(@, flag)]
    ELSE IF ~dryRun
         THEN LET call == ManifestWrite(acc.server, "POST", flag, flag.Key \in fails) IN
              IF call.err
              THEN [acc EXCEPT !.reqs = Append(@, call.req),
                               !.failed = @ \cup {flag.Key},
                               !.result.Errors = Append(@, [op |-> "create", key |-> flag.Key])]
              ELSE [acc EXCEPT !.reqs = Append(@, call.req),
                               !.server = call.server,
                               !.result.Created = Append(@, flag)]
         ELSE [acc EXCEPT !.result.Created = Append(@, flag)]

RECURSIVE PushFlags(_, _, _, _, _)
PushFlags(acc, flags, remoteMap, dryRun, fails) ==
    IF flags = <<>> THEN acc
    ELSE PushFlags(PushFlagsStep(acc, Head(flags), remoteMap, dryRun, fails),
                   Tail(flags), remoteMap, dryRun, fails)

\* DefaultPlugin.Push: pull, PushFlags, then copy Created, Updated and Unchanged
\* (and nothing else) into the plugin's PushResult.
DefaultPush(flags, server, dryRun, fetchFails, fails) ==
    LET fetch == PullFlags(server, fetchFails) IN
    IF fetch.err
    THEN [err |-> TRUE, result |-> NoResult, server |-> server, reqs |-> <<fetch.req>>, failed |-> {}]
    ELSE LET syncResult == PushFlags(StartPush(server, fetch.req), flags, FlagMap(fetch.flags), dryRun, fails)
         IN  [err |-> FALSE,
              result |-> [Created |-> syncResult.result.Created,
                          Updated |-> syncResult.result.Updated,
                          Deleted |-> <<>>,
                          Unchanged |-> syncResult.result.Unchanged,
                          Errors |-> <<>>],
              server |-> syncResult.server, reqs |-> syncResult.reqs, failed |-> syncResult.failed]

defaultFlagsEqual(a, b) ==
    /\ a.Key = b.Key
    /\ a.Type = b.Type
    /\ a.Description = b.Description
    /\ Sprintf_v(a.DefaultValue) = Sprintf_v(b.DefaultValue)

\* The two loops of DefaultPlugin.Compare
DefaultDiff(localMap, remoteMap, localOrder, remoteOrder) ==
    [Added     |-> FlagsAt(SelectSeq(localOrder, LAMBDA k : k \notin DOMAIN remoteMap), localMap),
     Modified  |-> LET ks == SelectSeq(localOrder,
                                LAMBDA k : k \in DOMAIN remoteMap /\ ~defaultFlagsEqual(localMap[k], remoteMap[k]))
                   IN  [i \in DOMAIN ks |-> [Key |-> ks[i], Local |-> localMap[ks[i]], Remote |-> remoteMap[ks[i]]]],
     Unchanged |-> FlagsAt(SelectSeq(localOrder,
                                LAMBDA k : k \in DOMAIN remoteMap /\ defaultFlagsEqual(localMap[k], remoteMap[k])), localMap),
     Removed   |-> FlagsAt(SelectSeq(remoteOrder, LAMBDA k : k \notin DOMAIN localMap), remoteMap)]

\* DefaultPlugin.Compare on a configured plugin
DefaultCompare(flags, server, fetchFails, localOrder, remoteOrder) ==
    LET fetch == PullFlags(server, fetchFails) IN
    IF fetch.err
    THEN [err |-> TRUE, result |-> NoResult, server |-> server, reqs |-> <<fetch.req>>]
    ELSE [err |-> FALSE,
          result |-> DefaultDiff(FlagMap(flags), FlagMap(fetch.flags), localOrder, remoteOrder),
          server |-> server,
          reqs |-> <<fetch.req>>]

\* ---- the calls as actions: each appends what it did to hist ----

InitSync ==
    /\ backend \in {"devcycle", "default"}
    /\ local \in LocalFlagsets
    /\ remote \in RemoteStates(IF backend = "devcycle" THEN DevCycleShapes ELSE ManifestShapes)
    /\ hist = <<>>

PushRecord(dryRun, out) ==
    [op |-> "Push", dryRun |-> dryRun, before |-> remote, after |-> out.server,
     reqs |-> out.reqs, err |-> out.err, result |-> out.result, failed |-> out.failed]

CompareRecord(out) ==
    [op |-> "Compare", dryRun |-> FALSE, before |-> remote, after |-> out.server,
     reqs |-> out.reqs, err |-> out.err, result |-> out.result, failed |-> {}]

PluginPush(dryRun, fetchFails, fails) ==
    /\ backend = "devcycle"
    /\ Len(hist) < MaxOps
    /\ LET out == DevCyclePush(local, remote, dryRun, fetchFails, fails) IN
       /\ remote' = out.server
       /\ hist' = Append(hist, PushRecord(dryRun, out))
    /\ UNCHANGED <<backend, local, managerVars, clientVars, lockVars, instanceVars, commandVars, runVars, fileVars, bootVars>>

PluginCompare(fetchFails, localOrder, remoteOrder) ==
    /\ backend = "devcycle"
    /\ Len(hist) < MaxOps
    /\ LET out == DevCycleCompare(local, remote, fetchFails, localOrder, remoteOrder) IN
       /\ remote' = out.server
       /\ hist' = Append(hist, CompareRecord(out))
    /\ UNCHANGED <<backend, local, managerVars, clientVars, lockVars, instanceVars, commandVars, runVars, fileVars, bootVars>>

DefaultPluginPush(dryRun, fetchFails, fails) ==
    /\ backend = "default"
    /\ Len(hist) < MaxOps
    /\ LET out == DefaultPush(local, remote, dryRun, fetchFails, fails) IN
       /\ remote' = out.server
       /\ hist' = Append(hist, PushRecord(dryRun, out))
    /\ UNCHANGED <<backend, local, managerVars, clientVars, lockVars, instanceVars, commandVars, runVars, fileVars, bootVars>>

DefaultPluginCompare(fetchFails, localOrder, remoteOrder) ==
    /\ backend = "default"
    /\ Len(hist) < MaxOps
    /\ LET out == DefaultCompare(local, remote, fetchFails, localOrder, remoteOrder) IN
       /\ remote' = out.server
       /\ hist' = Append(hist, CompareRecord(out))
    /\ UNCHANGED <<backend, local, managerVars, clientVars, lockVars, instanceVars, commandVars, runVars, fileVars, bootVars>>

\* The orders in which Compare's two `range` loops may walk localMap and remoteMap.
LocalOrders == Perms(KeysOf(local))
RemoteOrders ==
    IF backend = "devcycle" THEN Perms(DOMAIN DevCycleRemoteMap(remote)) ELSE Perms(DOMAIN remote)

NextSync ==
    \/ \E dryRun \in BOOLEAN, fetchFails \in BOOLEAN, fails \in SUBSET KeysOf(local) :
          PluginPush(dryRun, fetchFails, fails)
    \/ \E fetchFails \in BOOLEAN, lo \in LocalOrders, ro \in RemoteOrders :
          PluginCompare(fetchFails, lo, ro)
    \/ \E dryRun \in BOOLEAN, fetchFails \in BOOLEAN, fails \in SUBSET KeysOf(local) :
          DefaultPluginPush(dryRun, fetchFails, fails)
    \/ \E fetchFails \in BOOLEAN, lo \in LocalOrders, ro \in RemoteOrders :
          DefaultPluginCompare(fetchFails, lo, ro)

(***************************************************************************)
(* Part 4: the registry under concurrent callers                           *)
(***************************************************************************)

\* Goroutines that each make one call on the same Manager.
NumGoroutines == 3
Goroutines == 1..NumGoroutines

\* Names the concurrent readers ask for.
RegistryNames == {"default", "devcycle"}

\* m.mu, a sync.RWMutex: the goroutine holding the write lock (0: none), the
\* goroutines holding the read lock, and the goroutine whose Lock() has been
\* announced and waits for the readers to leave (0: none). acquired is a
\* history of the goroutines in the order they got the lock.
NoLock == [writer |-> 0, readers |-> {}, pending |-> 0, acquired |-> <<>>]

\* A goroutine that has not made its call: pc is its position, view the map
\* as it was when the goroutine got the lock, res what its call returns.
IdleGoroutine == [pc |-> "idle", op |-> "none", arg |-> 0, view |-> <<>>, res |-> <<>>]

LocksIdle ==
    /\ mu = NoLock
    /\ gor = <<>>

InitLocks ==
    /\ mu = NoLock
    /\ gor = [g \in Goroutines |-> IdleGoroutine]

\* go m.<op>(arg)
Go(g, op, arg) ==
    /\ gor[g].pc = "idle"
    /\ gor' = [gor EXCEPT ![g] = [pc |-> "lock", op |-> op, arg |-> arg, view |-> <<>>, res |-> <<>>]]
    /\ UNCHANGED <<mu, managerVars, clientVars, syncVars, instanceVars, commandVars, runVars, fileVars, bootVars>>

\* m.mu.Lock(), first half: wait for the writers before it, then keep new
\* readers out.
Lock(g) ==
    /\ gor[g].pc = "lock" /\ gor[g].op = "Register"
    /\ mu.writer = 0 /\ mu.pending = 0
    /\ mu' = [mu EXCEPT !.pending = g]
    /\ gor' = [gor EXCEPT ![g].pc = "locking"]
    /\ UNCHANGED <<managerVars, clientVars, syncVars, instanceVars, commandVars, runVars, fileVars, bootVars>>

\* A Lock() that does not wait for the readers to leave.
LockAcquiredNoExclusion(g) ==
    /\ gor[g].pc = "locking"
    /\ mu' = [mu EXCEPT !.writer = g, !.pending = 0, !.acquired = Append(@, g)]
    /\ gor' = [gor EXCEPT ![g].pc = "check", ![g].view = plugins]
    /\ UNCHANGED <<managerVars, clientVars, syncVars, instanceVars, commandVars, runVars, fileVars, bootVars>>

\* m.mu.Lock(), second half: returns once no reader holds the lock.
LockAcquired(g) ==
    /\ gor[g].pc = "locking"
    /\ mu.readers = {}
    /\ mu' = [mu EXCEPT !.writer = g, !.pending = 0, !.acquired = Append(@, g)]
    /\ gor' = [gor EXCEPT ![g].pc = "check", ![g].view = plugins]
    /\ UNCHANGED <<managerVars, clientVars, syncVars, instanceVars, commandVars, runVars, fileVars, bootVars>>

\* Register under the lock: factory(), Metadata(), the empty-name test and
\* the lookup of the name in the map.
RegisterCheck(g) ==
    /\ gor[g].pc = "check"
    /\ LET name == Metadata(gor[g].arg).Name IN
       gor' = [gor EXCEPT ![g] =
                  IF name = "" THEN [@ EXCEPT !.pc = "unlock", !.res = [err |-> "empty"]]
                  ELSE IF name \in DOMAIN plugins
                       THEN [@ EXCEPT !.pc = "unlock", !.res = [err |-> "exists"]]
                       ELSE [@ EXCEPT !.pc = "write"]]
    /\ UNCHANGED <<mu, managerVars, clientVars, syncVars, instanceVars, commandVars, runVars, fileVars, bootVars>>

\* m.plugins[meta.Name] = PluginInfo{...}
RegisterWrite(g) ==
    /\ gor[g].pc = "write"
    /\ LET name == Metadata(gor[g].arg).Name IN
       plugins' = [n \in DOMAIN plugins \cup {name} |->
                      IF n = name THEN PluginInfo(gor[g].arg) ELSE plugins[n]]
    /\ gor' = [gor EXCEPT ![g].pc = "unlock", ![g].res = [err |-> "nil"]]
    /\ UNCHANGED <<mu, lastOp, snapshot, clientVars, syncVars, instanceVars, commandVars, runVars, fileVars, bootVars>>

\* defer m.mu.Unlock()
Unlock(g) ==
    /\ gor[g].pc = "unlock" /\ gor[g].op = "Register"
    /\ mu' = [mu EXCEPT !.writer = 0]
    /\ gor' = [gor EXCEPT ![g].pc = "done"]
    /\ UNCHANGED <<managerVars, clientVars, syncVars, instanceVars, commandVars, runVars, fileVars, bootVars>>

\* m.mu.RLock(): returns once no writer holds the lock or waits for it.
RLock(g) ==
    /\ gor[g].pc = "lock" /\ gor[g].op # "Register"
    /\ mu.writer = 0 /\ mu.pending = 0
    /\ mu' = [mu EXCEPT !.readers = @ \cup {g}, !.acquired = Append(@, g)]
    /\ gor' = [gor EXCEPT ![g].pc = "read", ![g].view = plugins]
    /\ UNCHANGED <<managerVars, clientVars, syncVars, instanceVars, commandVars, runVars, fileVars, bootVars>>

\* The body of Get, GetInfo, List, GetAll, HasPlugin or PrintPluginsTable up
\* to its return; a Get that misses and PrintPluginsTable go on to
\* listPluginNames. PrintPluginDetails begins with m.Get(name), made before
\* it holds any lock; what it prints afterwards reads the instance only.
Read(g) ==
    /\ gor[g].pc = "read"
    /\ LET op == gor[g].op
           arg == gor[g].arg
       IN  gor' = [gor EXCEPT ![g] =
              IF op = "PrintPluginsTable"
              THEN [@ EXCEPT !.pc = "names",
                             !.res = [err |-> FALSE, factory |-> 0, available |-> <<>>]]
              ELSE IF op \in {"Get", "PrintPluginDetails"}
              THEN IF arg \in DOMAIN plugins
                   THEN [@ EXCEPT !.pc = "runlock",
                                  !.res = [err |-> FALSE, factory |-> plugins[arg].Factory, available |-> <<>>]]
                   ELSE [@ EXCEPT !.pc = "names",
                                  !.res = [err |-> TRUE, factory |-> 0, available |-> <<>>]]
              ELSE IF op = "GetInfo"
              THEN [@ EXCEPT !.pc = "runlock",
                             !.res = IF arg \in DOMAIN plugins
                                     THEN [err |-> FALSE, info |-> plugins[arg]]
                                     ELSE [err |-> TRUE, info |-> ZeroPluginInfo]]
              ELSE IF op = "List"
              THEN [@ EXCEPT !.pc = "runlock", !.res = List(plugins)]
              ELSE IF op = "GetAll"
              THEN [@ EXCEPT !.pc = "runlock", !.res = GetAll(plugins)]
              ELSE [@ EXCEPT !.pc = "runlock", !.res = <<HasPlugin(plugins, arg)>>]]
    /\ UNCHANGED <<mu, managerVars, clientVars, syncVars, instanceVars, commandVars, runVars, fileVars, bootVars>>

\* A listPluginNames that takes the read lock itself, as List does.
ReadNamesRelocking(g) ==
    /\ gor[g].pc = "names"
    /\ mu.writer = 0 /\ mu.pending = 0
    /\ gor' = [gor EXCEPT ![g].pc = "runlock", ![g].res.available = listPluginNames(plugins)]
    /\ UNCHANGED <<mu, managerVars, clientVars, syncVars, instanceVars, commandVars, runVars, fileVars, bootVars>>

\* m.listPluginNames() in a Get that missed and in PrintPluginsTable: the
\* helper takes no lock.
ReadNames(g) ==
    /\ gor[g].pc = "names"
    /\ gor' = [gor EXCEPT ![g].pc = "runlock", ![g].res.available = listPluginNames(plugins)]
    /\ UNCHANGED <<mu, managerVars, clientVars, syncVars, instanceVars, commandVars, runVars, fileVars, bootVars>>

\* defer m.mu.RUnlock()
RUnlock(g) ==
    /\ gor[g].pc = "runlock"
    /\ mu' = [mu EXCEPT !.readers = @ \ {g}]
    /\ gor' = [gor EXCEPT ![g].pc = "done"]
    /\ UNCHANGED <<managerVars, clientVars, syncVars, instanceVars, commandVars, runVars, fileVars, bootVars>>

NextRegistry ==
    \/ \E g \in Goroutines, f \in Factories : Go(g, "Register", f)
    \/ \E g \in Goroutines, n \in RegistryNames : Go(g, "Get", n)
    \/ \E g \in Goroutines, n \in RegistryNames : Go(g, "GetInfo", n)
    \/ \E g \in Goroutines, n \in RegistryNames : Go(g, "HasPlugin", n)
    \/ \E g \in Goroutines : Go(g, "List", 0)
    \/ \E g \in Goroutines : Go(g, "GetAll", 0)
    \/ \E g \in Goroutines : Go(g, "PrintPluginsTable", 0)
    \/ \E g \in Goroutines, n \in RegistryNames : Go(g, "PrintPluginDetails", n)
    \/ \E g \in Goroutines : Lock(g)
    \/ \E g \in Goroutines : LockAcquired(g)
    \/ \E g \in Goroutines : RegisterCheck(g)
    \/ \E g \in Goroutines : RegisterWrite(g)
    \/ \E g \in Goroutines : Unlock(g)
    \/ \E g \in Goroutines : RLock(g)
    \/ \E g \in Goroutines : Read(g)
    \/ \E g \in Goroutines : ReadNames(g)
    \/ \E g \in Goroutines : RUnlock(g)

(***************************************************************************)
(* Part 5: plugin instances                                                *)
(***************************************************************************)

\* Plugin instances a run creates, and Configure calls one instance receives.
MaxInstances == 2
MaxConfigures == 2

Kinds == {"default", "devcycle"}

\* plugin.Config: BaseURL, AuthToken and the Custom map, of which the plugins
\* read project, environment, clientId and clientSecret. Absent stands for a
\* key that Custom does not hold (or holds with a value that is not a string).
Absent == "<absent>"
Config(baseURL, project, environment, clientId, clientSecret) ==
    [BaseURL |-> baseURL, AuthToken |-> "t", project |-> project, environment |-> environment,
     clientId |-> clientId, clientSecret |-> clientSecret]
\* The configurations handed to Configure: a complete one, an empty one, and
\* three that each lack one of project, clientId and clientSecret.
Configs ==
    {Config("https://flags", "p1", "staging", "id", "secret"),
     Config("", Absent, Absent, Absent, Absent),
     Config("https://flags", Absent, Absent, "id", "secret"),
     Config("https://flags", "p1", Absent, Absent, "secret"),
     Config("", "p1", Absent, "id", Absent)}
ZeroConfig ==
    [BaseURL |-> "", AuthToken |-> "", project |-> Absent, environment |-> Absent,
     clientId |-> Absent, clientSecret |-> Absent]

\* v, ok := config.Custom[key].(string): v is "" when ok is false
CustomString(config, key) ==
    [ok |-> config[key] # Absent, v |-> IF config[key] = Absent THEN "" ELSE config[key]]

\* ConfigSchema.Required of the two plugins' Metadata()
Required(kind) ==
    IF kind = "devcycle" THEN {"project", "clientId", "clientSecret"} ELSE {}
\* Capabilities of the plugins' Metadata(): the two built-in plugins declare
\* all three; "readonly" is a plugin registered without CapabilityPush.
\* Metadata().Capabilities is a slice, in the order the plugin lists it.
CapabilityList(kind) ==
    IF kind = "readonly" THEN <<"pull", "compare">> ELSE <<"pull", "push", "compare">>
Capabilities(kind) == {CapabilityList(kind)[i] : i \in DOMAIN CapabilityList(kind)}
\* The four Capability constants of package plugin
CapabilityPull == "pull"
CapabilityPush == "push"
CapabilityCompare == "compare"
CapabilityDelete == "delete"
CapabilityValues == {CapabilityPull, CapabilityPush, CapabilityCompare, CapabilityDelete}

\* A HasCapability that looks at the first listed capability only.
HasCapabilityFirst(kind, cap) ==
    LET caps == CapabilityList(kind)
    IN  caps # <<>> /\ caps[1] = cap
\* HasCapability(p, cap): the loop over p.Metadata().Capabilities returns true
\* at the first element equal to cap, false when the slice is exhausted.
RECURSIVE capabilityFrom(_, _, _)
capabilityFrom(caps, i, cap) ==
    IF i > Len(caps) THEN FALSE
    ELSE IF caps[i] = cap THEN TRUE
    ELSE capabilityFrom(caps, i + 1, cap)
HasCapability(kind, cap) == capabilityFrom(CapabilityList(kind), 1, cap)

\* The address of the Client made by the n-th Configure of instance i: every
\* allocation gets an address of its own.
ClientAddress(i, n) == (i - 1) * MaxConfigures + n

\* A nil *Client, and the Client NewClient / sync.NewClient returns at address ptr.
NilClient == [ptr |-> 0, clientID |-> "", clientSecret |-> "", baseURL |-> ""]

\* devcycle.NewClient: an error when either credential is empty
NewClient(clientID, clientSecret, ptr) ==
    IF clientID = "" \/ clientSecret = ""
    THEN [err |-> TRUE, client |-> NilClient]
    ELSE [err |-> FALSE,
          client |-> [ptr |-> ptr, clientID |-> clientID, clientSecret |-> clientSecret, baseURL |-> ""]]

\* sync.NewClient(baseURL, authToken): whether it rejects its arguments is the
\* caller's input `rejects`
SyncNewClient(baseURL, authToken, ptr, rejects) ==
    IF rejects
    THEN [err |-> TRUE, client |-> NilClient]
    ELSE [err |-> FALSE,
          client |-> [ptr |-> ptr, clientID |-> "", clientSecret |-> "", baseURL |-> baseURL]]

\* &Plugin{} and &DefaultPlugin{}: what the factories NewPlugin and NewDefaultPlugin
\* return. configures counts the Configure calls the instance has received.
NewInstance(kind) ==
    [kind |-> kind, config |-> ZeroConfig, project |-> "", environment |-> "",
     client |-> NilClient, configures |-> 0]

\* Plugin.Configure (DevCycle) on instance p
DevCycleConfigure(p, config, ptr) ==
    LET project == CustomString(config, "project")
        env     == CustomString(config, "environment")
        made    == NewClient(CustomString(config, "clientId").v,
                             CustomString(config, "clientSecret").v, ptr)
        p1 == [p EXCEPT !.config = config,
                        !.project = IF project.ok THEN project.v ELSE @,
                        !.environment = IF env.ok THEN env.v ELSE "development",
                        !.configures = @ + 1]
    IN  IF made.err
        THEN [err |-> TRUE, p |-> p1]
        ELSE [err |-> FALSE, p |-> [p1 EXCEPT !.client = made.client]]

\* DefaultPlugin.Configure on instance p
DefaultConfigure(p, config, ptr, rejects) ==
    LET made == SyncNewClient(config.BaseURL, config.AuthToken, ptr, rejects)
        p1 == [p EXCEPT !.config = config, !.configures = @ + 1]
    IN  IF made.err
        THEN [err |-> TRUE, p |-> p1]
        ELSE [err |-> FALSE, p |-> [p1 EXCEPT !.client = made.client]]

NoError == [kind |-> "nil", plugin |-> "", message |-> ""]
ErrConfigInvalid(plugin, message) == [kind |-> "ErrConfigInvalid", plugin |-> plugin, message |-> message]
OtherError(message) == [kind |-> "error", plugin |-> "", message |-> message]

\* The configuration fields an ErrConfigInvalid message mentions.
FieldsNamed(message) ==
    CASE message = "project is required" -> {"project"}
      [] message = "client not configured - ensure clientId and clientSecret are provided" ->
            {"clientId", "clientSecret"}
      [] message = "baseUrl is required" -> {"BaseURL"}
      [] OTHER -> {}

\* Plugin.ValidateConfig (DevCycle)
DevCycleValidateConfig(p) ==
    IF p.project = ""
    THEN ErrConfigInvalid("devcycle", "project is required")
    ELSE IF p.client = NilClient
    THEN ErrConfigInvalid("devcycle", "client not configured - ensure clientId and clientSecret are provided")
    ELSE NoError

\* DefaultPlugin.ValidateConfig
DefaultValidateConfig(p) ==
    IF p.config.BaseURL = ""
    THEN ErrConfigInvalid("default", "baseUrl is required")
    ELSE NoError

\* ---- Pull, Push and Compare as the plugins run them on an instance p:
\* the precondition check first, then the operation itself. result is <<>>
\* for a nil result and <<r>> for the result r ----

NotConfigured == OtherError("plugin not configured: call Configure() first")
FetchFailed == OtherError("failed to fetch remote state")

\* Plugin.Pull (DevCycle); order is the order in which the API lists the variables
DevCyclePull(p, server, fetchFails, order) ==
    IF DevCycleValidateConfig(p) # NoError
    THEN [err |-> DevCycleValidateConfig(p), result |-> <<>>, server |-> server, reqs |-> <<>>]
    ELSE LET fetch == GetVariables(server, fetchFails) IN
         IF fetch.err
         THEN [err |-> FetchFailed, result |-> <<>>, server |-> server, reqs |-> <<fetch.req>>]
         ELSE [err |-> NoError, result |-> <<PulledFlags(FlagsAt(order, fetch.variables))>>,
               server |-> server, reqs |-> <<fetch.req>>]

\* Plugin.Push (DevCycle), ValidateConfig included
DevCyclePushOn(p, flags, server, dryRun, fetchFails, fails) ==
    IF DevCycleValidateConfig(p) # NoError
    THEN [err |-> DevCycleValidateConfig(p), result |-> <<>>, server |-> server, reqs |-> <<>>]
    ELSE LET out == DevCyclePush(flags, server, dryRun, fetchFails, fails)
         IN  [err |-> IF out.err THEN FetchFailed ELSE NoError,
              result |-> IF out.err THEN <<>> ELSE <<out.result>>,
              server |-> out.server, reqs |-> out.reqs]

\* Plugin.Compare (DevCycle), ValidateConfig included
DevCycleCompareOn(p, flags, server, fetchFails, localOrder, remoteOrder) ==
    IF DevCycleValidateConfig(p) # NoError
    THEN [err |-> DevCycleValidateConfig(p), result |-> <<>>, server |-> server, reqs |-> <<>>]
    ELSE LET out == DevCycleCompare(flags, server, fetchFails, localOrder, remoteOrder)
         IN  [err |-> IF out.err THEN FetchFailed ELSE NoError,
              result |-> IF out.err THEN <<>> ELSE <<out.result>>,
              server |-> out.server, reqs |-> out.reqs]

\* DefaultPlugin.Pull
DefaultPull(p, server, fetchFails) ==
    IF p.client = NilClient
    THEN [err |-> NotConfigured, result |-> <<>>, server |-> server, reqs |-> <<>>]
    ELSE LET fetch == PullFlags(server, fetchFails)
         IN  [err |-> IF fetch.err THEN FetchFailed ELSE NoError,
              result |-> IF fetch.err THEN <<>> ELSE <<fetch.flags>>,
              server |-> server, reqs |-> <<fetch.req>>]

\* DefaultPlugin.Push, the nil-client check included
DefaultPushOn(p, flags, server, dryRun, fetchFails, fails) ==
    IF p.client = NilClient
    THEN [err |-> NotConfigured, result |-> <<>>, server |-> server, reqs |-> <<>>]
    ELSE LET out == DefaultPush(flags, server, dryRun, fetchFails, fails)
         IN  [err |-> IF out.err THEN FetchFailed ELSE NoError,
              result |-> IF out.err THEN <<>> ELSE <<out.result>>,
              server |-> out.server, reqs |-> out.reqs]

\* DefaultPlugin.Compare, the nil-client check included
DefaultCompareOn(p, flags, server, fetchFails, localOrder, remoteOrder) ==
    IF p.client = NilClient
    THEN [err |-> NotConfigured, result |-> <<>>, server |-> server, reqs |-> <<>>]
    ELSE LET out == DefaultCompare(flags, server, fetchFails, localOrder, remoteOrder)
         IN  [err |-> IF out.err THEN FetchFailed ELSE NoError,
              result |-> IF out.err THEN <<>> ELSE <<out.result>>,
              server |-> out.server, reqs |-> out.reqs]

\* ---- the calls as actions ----

NoCall == [op |-> "none", inst |-> 0, err |-> NoError, reqs |-> <<>>, out |-> <<>>]
Call(op, inst, err, reqs, out) == [op |-> op, inst |-> inst, err |-> err, reqs |-> reqs, out |-> out]

InstancesIdle ==
    /\ instances = <<>>
    /\ servers = <<>>
    /\ lastCall = NoCall

\* The registry as the init() functions of the two plugin packages leave it.
BuiltinPlugins ==
    [n \in {"default", "devcycle"} |->
        [Name        |-> n,
         Description |-> IF n = "default"
                         THEN "Default sync plugin using the OpenFeature Manifest Management API"
                         ELSE "Sync plugin for DevCycle feature flag management platform",
         Stability   |-> IF n = "default" THEN "stable" ELSE "beta",
         Factory     |-> Rank(n) - 1]]

\* The one-flag local flagset the operations are run with.
SampleFlags == <<Flag("alpha", <<BoolType, "bool(true)">>, "d1")>>

InitInstances ==
    /\ instances = <<>>
    /\ servers = [k \in Kinds |-> <<>>]
    /\ lastCall = NoCall

\* A factory that hands out the instance it made before, if there is one.
GetInstanceShared(name) ==
    /\ Len(instances) < MaxInstances
    /\ IF name \in DOMAIN plugins
       THEN IF \E i \in DOMAIN instances : instances[i].kind = name
            THEN /\ instances' = instances
                 /\ lastCall' = Call("Get", CHOOSE i \in DOMAIN instances : instances[i].kind = name,
                                      NoError, <<>>, <<>>)
            ELSE /\ instances' = Append(instances, NewInstance(Metadata(plugins[name].Factory).Name))
                 /\ lastCall' = Call("Get", Len(instances) + 1, NoError, <<>>, <<>>)
       ELSE /\ instances' = instances
            /\ lastCall' = Call("Get", 0, OtherError("plugin not found"), <<>>, <<>>)
    /\ UNCHANGED <<servers, managerVars, clientVars, syncVars, lockVars, commandVars, runVars, fileVars, bootVars>>

\* Manager.Get with the built-in factories: info.Factory() makes a new instance.
GetInstance(name) ==
    /\ Len(instances) < MaxInstances
    /\ IF name \in DOMAIN plugins
       THEN /\ instances' = Append(instances, NewInstance(Metadata(plugins[name].Factory).Name))
            /\ lastCall' = Call("Get", Len(instances) + 1, NoError, <<>>, <<>>)
       ELSE /\ instances' = instances
            /\ lastCall' = Call("Get", 0, OtherError("plugin not found"), <<>>, <<>>)
    /\ UNCHANGED <<servers, managerVars, clientVars, syncVars, lockVars, commandVars, runVars, fileVars, bootVars>>

\* p.Configure(config) on instance i; rejects is read by the default plugin only.
Configure(i, config, rejects) ==
    /\ instances[i].configures < MaxConfigures
    /\ LET p == instances[i]
           ptr == ClientAddress(i, p.configures + 1)
           out == IF p.kind = "devcycle"
                  THEN DevCycleConfigure(p, config, ptr)
                  ELSE DefaultConfigure(p, config, ptr, rejects)
       IN  /\ instances' = [instances EXCEPT ![i] = out.p]
           /\ lastCall' = Call("Configure", i,
                               IF out.err THEN OtherError("failed to create client") ELSE NoError,
                               <<>>, <<>>)
    /\ UNCHANGED <<servers, managerVars, clientVars, syncVars, lockVars, commandVars, runVars, fileVars, bootVars>>

\* p.ValidateConfig() on instance i
ValidateConfig(i) ==
    /\ LET p == instances[i]
       IN  lastCall' = Call("ValidateConfig", i,
                            IF p.kind = "devcycle" THEN DevCycleValidateConfig(p)
                            ELSE DefaultValidateConfig(p),
                            <<>>, <<>>)
    /\ UNCHANGED <<instances, servers, managerVars, clientVars, syncVars, lockVars, commandVars, runVars, fileVars, bootVars>>

\* p.Pull(opts) on instance i
Pull(i, fetchFails, order) ==
    /\ LET p == instances[i]
           out == IF p.kind = "devcycle"
                  THEN DevCyclePull(p, servers[p.kind], fetchFails, order)
                  ELSE DefaultPull(p, servers[p.kind], fetchFails)
       IN  /\ servers' = [servers EXCEPT ![p.kind] = out.server]
           /\ lastCall' = Call("Pull", i, out.err, out.reqs, out.result)
    /\ UNCHANGED <<instances, managerVars, clientVars, syncVars, lockVars, commandVars, runVars, fileVars, bootVars>>

\* p.Push(flags, opts) on instance i
Push(i, dryRun, fetchFails, fails) ==
    /\ LET p == instances[i]
           out == IF p.kind = "devcycle"
                  THEN DevCyclePushOn(p, SampleFlags, servers[p.kind], dryRun, fetchFails, fails)
                  ELSE DefaultPushOn(p, SampleFlags, servers[p.kind], dryRun, fetchFails, fails)
       IN  /\ servers' = [servers EXCEPT ![p.kind] = out.server]
           /\ lastCall' = Call("Push", i, out.err, out.reqs, out.result)
    /\ UNCHANGED <<instances, managerVars, clientVars, syncVars, lockVars, commandVars, runVars, fileVars, bootVars>>

\* p.Compare(flags, opts) on instance i
Compare(i, fetchFails) ==
    /\ LET p == instances[i]
           order == <<SampleFlags[1].Key>>
           ro == IF servers[p.kind] = <<>> THEN <<>> ELSE order
           out == IF p.kind = "devcycle"
                  THEN DevCycleCompareOn(p, SampleFlags, servers[p.kind], fetchFails, order, ro)
                  ELSE DefaultCompareOn(p, SampleFlags, servers[p.kind], fetchFails, order, ro)
       IN  /\ servers' = [servers EXCEPT ![p.kind] = out.server]
           /\ lastCall' = Call("Compare", i, out.err, out.reqs, out.result)
    /\ UNCHANGED <<instances, managerVars, clientVars, syncVars, lockVars, commandVars, runVars, fileVars, bootVars>>

\* plugin.HasCapability(p, cap) on instance i: p.Metadata() builds a literal
\* and reads no field of p.
HasCapabilityCall(i, cap) ==
    /\ lastCall' = Call("HasCapability", i, NoError, <<>>,
                        <<[cap |-> cap, has |-> HasCapability(instances[i].kind, cap)]>>)
    /\ UNCHANGED <<instances, servers, managerVars, clientVars, syncVars, lockVars, commandVars, runVars, fileVars, bootVars>>

NextInstances ==
    \/ \E n \in Names : GetInstance(n)
    \/ \E i \in DOMAIN instances, cap \in CapabilityValues : HasCapabilityCall(i, cap)
    \/ \E i \in DOMAIN instances, c \in Configs, rejects \in BOOLEAN : Configure(i, c, rejects)
    \/ \E i \in DOMAIN instances : ValidateConfig(i)
    \/ \E i \in DOMAIN instances, fetchFails \in BOOLEAN :
          \E order \in Perms(DOMAIN servers[instances[i].kind]) : Pull(i, fetchFails, order)
    \/ \E i \in DOMAIN instances, dryRun \in BOOLEAN, fetchFails \in BOOLEAN, fails \in SUBSET KeysOf(SampleFlags) :
          Push(i, dryRun, fetchFails, fails)
    \/ \E i \in DOMAIN instances, fetchFails \in BOOLEAN : Compare(i, fetchFails)

(***************************************************************************)
(* Part 6: the push command's plugin path                                  *)
(***************************************************************************)


\* (*ErrNotSupported).Error() and fmt.Errorf: message is the format string,
\* args the values formatted into it, cause the error wrapped by %w.
NoCause == NoError
NilError ==
    [kind |-> "nil", plugin |-> "", operation |-> "", message |-> "", args |-> <<>>, cause |-> NoCause]
ErrNotSupported(plugin, operation) ==
    [kind |-> "ErrNotSupported", plugin |-> plugin, operation |-> operation,
     message |-> "plugin %q does not support %s operation", args |-> <<plugin, operation>>,
     cause |-> NoCause]
Errorf(format, args, cause) ==
    [kind |-> "error", plugin |-> "", operation |-> "", message |-> format, args |-> args,
     cause |-> cause]

\* A plugin registered by another package: it declares pull and compare only,
\* its Configure fails when told to, its ValidateConfig wants a Configure
\* that succeeded, and its Push returns the not-supported error.
ReadOnlyConfigure(p, config, rejects) ==
    IF rejects THEN [err |-> TRUE, p |-> p]
    ELSE [err |-> FALSE, p |-> [p EXCEPT !.config = config, !.configures = @ + 1]]
ReadOnlyValidateConfig(p) ==
    IF p.configures = 0 THEN ErrConfigInvalid("readonly", "plugin not configured") ELSE NoError
ReadOnlyPushOn(p, server) ==
    [err |-> OtherError("push is not supported"), result |-> <<>>, server |-> server, reqs |-> <<>>]

\* The registry the command finds: the built-in plugins and "readonly".
ReadOnlyFactory == NumFactories + 1
CommandKinds == Kinds \cup {"readonly"}
CommandPlugins ==
    [n \in CommandKinds |->
        IF n \in DOMAIN BuiltinPlugins THEN BuiltinPlugins[n]
        ELSE [Name |-> n, Description |-> "read-only source", Stability |-> "experimental",
              Factory |-> ReadOnlyFactory]]

\* Plugin names given with --plugin; "unknown" is registered nowhere.
PluginNames == CommandKinds \cup {"unknown"}

\* One call the command made and whether it succeeded (HasCapability: true).
Step(name, ok) == [name |-> name, ok |-> ok]

\* No command has run.
NoRun ==
    [ran |-> FALSE, plugin |-> "", config |-> ZeroConfig, dryRun |-> FALSE, calls |-> <<>>,
     err |-> NilError, result |-> <<>>, printed |-> <<>>]

\* The headline displayPluginPushResults prints (the lists of created and
\* updated keys that follow the second headline are left out).
UpToDate == "No changes needed - all flags are already up to date."
WouldPush == "DRY RUN: Would push %d flag(s) via %s plugin"
Pushed == "Successfully pushed %d flag(s) via %s plugin"
displayPluginPushResults(result, dryRun) ==
    LET totalChanges == Len(result.Created) + Len(result.Updated)
    IN  IF totalChanges = 0
        THEN <<[dryRun |-> dryRun, text |-> UpToDate]>>
        ELSE <<[dryRun |-> dryRun, text |-> IF dryRun THEN WouldPush ELSE Pushed]>>
\* What pushWithPlugin prints after a Push that returned a result: the
\* display, then the warning that heads the list of non-fatal errors.
SomeErrors == "Some operations had errors:"
Printed(err, result, dryRun) ==
    IF err # NilError \/ result = <<>> THEN <<>>
    ELSE displayPluginPushResults(result[1], dryRun)
            \o (IF Len(result[1].Errors) > 0 THEN <<[dryRun |-> dryRun, text |-> SomeErrors]>> ELSE <<>>)
Ran(pluginName, config, dryRun, calls, err, result) ==
    [ran |-> TRUE, plugin |-> pluginName, config |-> config, dryRun |-> dryRun, calls |-> calls,
     err |-> err, result |-> result, printed |-> Printed(err, result, dryRun)]

CommandIdle == cmd = NoRun

InitCommand ==
    /\ plugins = CommandPlugins
    /\ lastOp = NoOp
    /\ snapshot = NoSnapshot
    /\ instances = <<>>
    /\ servers = [k \in CommandKinds |-> <<>>]
    /\ lastCall = NoCall
    /\ cmd = NoRun

\* The steps of pushWithPlugin on a registered plugin, from Configure on.
\* gated says whether the HasCapability test is made.
PluginPushSteps(kind, config, rejects, dryRun, fetchFails, fails, gated) ==
    LET p0 == NewInstance(kind)
        conf == IF kind = "devcycle" THEN DevCycleConfigure(p0, config, ClientAddress(1, 1))
                ELSE IF kind = "default" THEN DefaultConfigure(p0, config, ClientAddress(1, 1), rejects)
                ELSE ReadOnlyConfigure(p0, config, rejects)
        p == conf.p
        valid == IF kind = "devcycle" THEN DevCycleValidateConfig(p)
                 ELSE IF kind = "default" THEN DefaultValidateConfig(p)
                 ELSE ReadOnlyValidateConfig(p)
        out == IF kind = "devcycle"
               THEN DevCyclePushOn(p, SampleFlags, servers[kind], dryRun, fetchFails, fails)
               ELSE IF kind = "default"
               THEN DefaultPushOn(p, SampleFlags, servers[kind], dryRun, fetchFails, fails)
               ELSE ReadOnlyPushOn(p, servers[kind])
        got == <<Step("Get", TRUE)>>
        checked == IF gated THEN <<Step("HasCapability", HasCapability(kind, "push"))>> ELSE <<>>
    IN  IF conf.err
        THEN [calls |-> got \o <<Step("Configure", FALSE)>>,
              err |-> Errorf("failed to configure plugin: %w", <<>>,
                             OtherError("failed to create client")),
              result |-> <<>>, server |-> servers[kind]]
        ELSE IF valid # NoError
        THEN [calls |-> got \o <<Step("Configure", TRUE), Step("ValidateConfig", FALSE)>>,
              err |-> Errorf("invalid plugin configuration: %w", <<>>, valid),
              result |-> <<>>, server |-> servers[kind]]
        ELSE IF gated /\ ~HasCapability(kind, "push")
        THEN [calls |-> got \o <<Step("Configure", TRUE), Step("ValidateConfig", TRUE)>> \o checked,
              err |-> Errorf("plugin %q does not support push operations", <<kind>>, NoCause),
              result |-> <<>>, server |-> servers[kind]]
        ELSE [calls |-> got \o <<Step("Configure", TRUE), Step("ValidateConfig", TRUE)>> \o checked
                            \o <<Step("Push", out.err = NoError)>>,
              err |-> IF out.err # NoError
                      THEN Errorf("error pushing flags via plugin: %w", <<>>, out.err)
                      ELSE NilError,
              result |-> out.result, server |-> out.server]

\* A pushWithPlugin that calls Push without asking HasCapability.
pushWithPluginUngated(pluginName, config, rejects, dryRun, fetchFails, fails) ==
    /\ IF pluginName \notin DOMAIN plugins
       THEN /\ cmd' = Ran(pluginName, config, dryRun, <<Step("Get", FALSE)>>,
                          Errorf("failed to get plugin: %w", <<>>, OtherError("plugin not found")), <<>>)
            /\ servers' = servers
       ELSE LET steps == PluginPushSteps(pluginName, config, rejects, dryRun, fetchFails, fails, FALSE)
            IN  /\ cmd' = Ran(pluginName, config, dryRun, steps.calls, steps.err, steps.result)
                /\ servers' = [servers EXCEPT ![pluginName] = steps.server]
    /\ UNCHANGED <<instances, lastCall, managerVars, clientVars, syncVars, lockVars, runVars, fileVars, bootVars>>

\* pushWithPlugin(cmd, pluginName, flags, dryRun): plugin.Get, the plugin
\* configuration built from the command's settings, Configure,
\* ValidateConfig, HasCapability, Push, and the error it returns.
pushWithPlugin(pluginName, config, rejects, dryRun, fetchFails, fails) ==
    /\ IF pluginName \notin DOMAIN plugins
       THEN /\ cmd' = Ran(pluginName, config, dryRun, <<Step("Get", FALSE)>>,
                          Errorf("failed to get plugin: %w", <<>>, OtherError("plugin not found")), <<>>)
            /\ servers' = servers
       ELSE LET steps == PluginPushSteps(pluginName, config, rejects, dryRun, fetchFails, fails, TRUE)
            IN  /\ cmd' = Ran(pluginName, config, dryRun, steps.calls, steps.err, steps.result)
                /\ servers' = [servers EXCEPT ![pluginName] = steps.server]
    /\ UNCHANGED <<instances, lastCall, managerVars, clientVars, syncVars, lockVars, runVars, fileVars, bootVars>>

NextCommand ==
    \E pluginName \in PluginNames, config \in Configs, rejects \in BOOLEAN, dryRun \in BOOLEAN,
       fetchFails \in BOOLEAN, fails \in SUBSET KeysOf(SampleFlags) :
          pushWithPlugin(pluginName, config, rejects, dryRun, fetchFails, fails)

(***************************************************************************)
(* Part 7: one Pull, Push or Compare of the DevCycle plugin, request by    *)
(* request, under the caller's context                                     *)
(***************************************************************************)

\* Status codes the token endpoint and the Management API answer with, and
\* the bodies of their error answers.
AuthStatuses == {200, 201, 401, 500}
ApiStatuses == {200, 204, 404, 500}
ErrorBodies == {"denied", "try later"}
Is2xx(status) == 200 <= status /\ status < 300

\* What the token endpoint answers with on success.
RunTokens == {"tokA"}
RunExpiresIn == {ExpiryBuffer + 1, ExpiryBuffer + MaxTime + 1}

\* The goroutine running the operation, and another goroutine of the same
\* Client that may hold tokenMu inside its own authenticate.
Runner == 1
OtherCaller == 2

\* error values: nil, fmt.Errorf("... (status %d): %s", code, body), and an
\* error wrapping the context's (the *url.Error of Do names the method).
NoFailure == [kind |-> "nil", message |-> "", status |-> 0, body |-> ""]
StatusError(message, status, body) ==
    [kind |-> "status", message |-> message, status |-> status, body |-> body]
ContextError(message) == [kind |-> "context", message |-> message, status |-> 0, body |-> ""]

\* The local flagset of the run and the remote projects it may meet.
RunLocal ==
    <<Flag("alpha", <<BoolType, "bool(true)">>, "d1"), Flag("beta", <<BoolType, "bool(false)">>, "d1")>>
RunRemotes ==
    {<<>>,
     [k \in {"alpha"} |-> Flag(k, <<"Boolean", "bool(true)">>, "d2")],
     [k \in {"alpha", "beta"} |->
         IF k = "alpha" THEN Flag(k, <<"Boolean", "bool(true)">>, "d1")
         ELSE Flag(k, <<"Boolean", "bool(false)">>, "d2")]}

\* One HTTP request on the wire; status 0 while no answer has come, -1 when
\* the caller gave up on it.
Pending == 0
GaveUp == -1
AuthRequest == [kind |-> "auth", method |-> "POST", path |-> "oauth/token", key |-> "", token |-> "",
                status |-> Pending, body |-> ""]
ApiRequest(method, path, key, token) ==
    [kind |-> "api", method |-> method, path |-> path, key |-> key, token |-> token,
     status |-> Pending, body |-> ""]
Answered(w, status, body) ==
    [w EXCEPT ![Len(w)].status = status, ![Len(w)].body = body]

\* The client call in progress. flag is the index of the local flag it is for.
NoClientCall == [name |-> "none", method |-> "", path |-> "", key |-> "", flag |-> 0]
ClientCall(name, method, path, key, flag) ==
    [name |-> name, method |-> method, path |-> path, key |-> key, flag |-> flag]
GetVariablesCall == ClientCall("GetVariables", "GET", "variables", "", 0)

\* No operation has begun. pc is the position of the operation's goroutine,
\* next the index of the local flag the loop of Push is at, auths the OAuth
\* requests sent within the current client call, cancelledAt the number of
\* requests sent when the context was cancelled and cancelledIn the
\* position the operation was at then.
NotRunning ==
    [op |-> "none", dryRun |-> FALSE, pc |-> "idle",
     cancelled |-> FALSE, cancelledAt |-> 0, cancelledIn |-> "",
     call |-> NoClientCall, auths |-> 0, callErr |-> NoFailure,
     variables |-> <<>>, remoteMap |-> <<>>, next |-> 0,
     result |-> EmptyPushResult, out |-> <<>>, err |-> NoFailure]

RunIdle ==
    /\ run = NotRunning
    /\ wire = <<>>

\* p.Pull / p.Push / p.Compare on a configured plugin: ValidateConfig passes
\* and the operation calls p.client.GetVariables.
Begin(op, dryRun) ==
    /\ run.pc = "idle"
    /\ op = "Push" \/ ~dryRun
    /\ run' = [NotRunning EXCEPT !.op = op, !.dryRun = dryRun, !.pc = "lock", !.call = GetVariablesCall]
    /\ UNCHANGED <<wire, managerVars, clientVars, syncVars, lockVars, instanceVars, commandVars, fileVars, bootVars>>

\* doRequest -> authenticate: c.tokenMu.Lock() returns. The lock does not
\* look at the context.
TokenLock ==
    /\ run.pc = "lock"
    /\ tokenMu = 0
    /\ tokenMu' = Runner
    /\ run' = [run EXCEPT !.pc = "check", !.auths = 0, !.callErr = NoFailure]
    /\ UNCHANGED <<wire, accessToken, tokenExpiry, now, pc, blocked, hit, exch, authCount, firstAuth, sent>>
    /\ UNCHANGED <<managerVars, syncVars, lockVars, instanceVars, commandVars, fileVars, bootVars>>

\* The validity check of authenticate under the lock.
TokenCheck ==
    /\ run.pc = "check"
    /\ IF TokenValid
       THEN /\ tokenMu' = 0
            /\ run' = [run EXCEPT !.pc = "send"]
       ELSE /\ tokenMu' = tokenMu
            /\ run' = [run EXCEPT !.pc = "exchange"]
    /\ UNCHANGED <<wire, accessToken, tokenExpiry, now, pc, blocked, hit, exch, authCount, firstAuth, sent>>
    /\ UNCHANGED <<managerVars, syncVars, lockVars, instanceVars, commandVars, fileVars, bootVars>>

\* c.httpClient.Do(req) of authenticate: with a cancelled context it returns
\* the context's error at once, otherwise the OAuth request goes out.
AuthSend ==
    /\ run.pc = "exchange"
    /\ IF run.cancelled
       THEN /\ tokenMu' = 0
            /\ wire' = wire
            /\ run' = [run EXCEPT !.pc = "returned", !.callErr = ContextError("failed to authenticate")]
       ELSE /\ tokenMu' = tokenMu
            /\ wire' = Append(wire, AuthRequest)
            /\ run' = [run EXCEPT !.pc = "authwait", !.auths = @ + 1]
    /\ UNCHANGED <<accessToken, tokenExpiry, now, pc, blocked, hit, exch, authCount, firstAuth, sent>>
    /\ UNCHANGED <<managerVars, syncVars, lockVars, instanceVars, commandVars, fileVars, bootVars>>

\* An authenticate that asks the token endpoint once more after an answer
\* other than 200.
AuthRespondRetrying(status, body, tok, n) ==
    /\ run.pc = "authwait"
    /\ ~run.cancelled
    /\ wire' = Answered(wire, status, IF status = 200 THEN "" ELSE body)
    /\ IF status = 200
       THEN /\ accessToken' = tok
            /\ tokenExpiry' = now + (n - ExpiryBuffer)
            /\ tokenMu' = 0
            /\ run' = [run EXCEPT !.pc = "send"]
       ELSE /\ UNCHANGED <<accessToken, tokenExpiry>>
            /\ tokenMu' = IF run.auths < 2 THEN tokenMu ELSE 0
            /\ run' = [run EXCEPT !.pc = IF run.auths < 2 THEN "exchange" ELSE "returned",
                                  !.callErr = IF run.auths < 2 THEN NoFailure
                                              ELSE StatusError("authentication failed", status, body)]
    /\ UNCHANGED <<now, pc, blocked, hit, exch, authCount, firstAuth, sent>>
    /\ UNCHANGED <<managerVars, syncVars, lockVars, instanceVars, commandVars, fileVars, bootVars>>

\* The token endpoint answers: 200 stores the token and its shortened
\* expiry, any other status makes authenticate, and with it doRequest and
\* the client call, return the error with the status and the body.
AuthRespond(status, body, tok, n) ==
    /\ run.pc = "authwait"
    /\ ~run.cancelled
    /\ wire' = Answered(wire, status, IF status = 200 THEN "" ELSE body)
    /\ tokenMu' = 0
    /\ IF status = 200
       THEN /\ accessToken' = tok
            /\ tokenExpiry' = now + (n - ExpiryBuffer)
            /\ run' = [run EXCEPT !.pc = "send"]
       ELSE /\ UNCHANGED <<accessToken, tokenExpiry>>
            /\ run' = [run EXCEPT !.pc = "returned",
                                  !.callErr = StatusError("authentication failed", status, body)]
    /\ UNCHANGED <<now, pc, blocked, hit, exch, authCount, firstAuth, sent>>
    /\ UNCHANGED <<managerVars, syncVars, lockVars, instanceVars, commandVars, fileVars, bootVars>>

\* The context is cancelled while the OAuth request is out: Do returns the
\* context's error.
AuthAbort ==
    /\ run.pc = "authwait"
    /\ run.cancelled
    /\ wire' = Answered(wire, GaveUp, "")
    /\ tokenMu' = 0
    /\ run' = [run EXCEPT !.pc = "returned", !.callErr = ContextError("failed to authenticate")]
    /\ UNCHANGED <<accessToken, tokenExpiry, now, pc, blocked, hit, exch, authCount, firstAuth, sent>>
    /\ UNCHANGED <<managerVars, syncVars, lockVars, instanceVars, commandVars, fileVars, bootVars>>

\* The rest of doRequest: the token is read under RLock, then
\* c.httpClient.Do(req) sends the API request unless the context is cancelled.
ApiSend ==
    /\ run.pc = "send"
    /\ tokenMu = 0
    /\ IF run.cancelled
       THEN /\ wire' = wire
            /\ run' = [run EXCEPT !.pc = "returned", !.callErr = ContextError(run.call.method)]
       ELSE /\ wire' = Append(wire, ApiRequest(run.call.method, run.call.path, run.call.key, accessToken))
            /\ run' = [run EXCEPT !.pc = "apiwait"]
    /\ UNCHANGED <<managerVars, clientVars, syncVars, lockVars, instanceVars, commandVars, fileVars, bootVars>>

\* What a create or update that the server accepted leaves on the server.
Applied(call) ==
    IF call.name = "CreateFeatureWithVariable"
    THEN CreateFeatureWithVariable(remote, flagToVariable(local[call.flag]), FALSE).server
    ELSE IF call.name = "UpdateVariable"
    THEN UpdateVariable(remote, call.key, flagToVariable(local[call.flag]), FALSE).server
    ELSE remote

\* A client that takes every answer for a success.
ApiRespondSwallowing(status, body, order) ==
    /\ run.pc = "apiwait"
    /\ ~run.cancelled
    /\ wire' = Answered(wire, status, IF Is2xx(status) THEN "" ELSE body)
    /\ remote' = IF Is2xx(status) THEN Applied(run.call) ELSE remote
    /\ run' = [run EXCEPT !.pc = "returned", !.callErr = NoFailure,
                          !.variables = IF run.call.name = "GetVariables"
                                        THEN FlagsAt(order, remote) ELSE @]
    /\ UNCHANGED <<backend, local, hist, managerVars, clientVars, lockVars, instanceVars, commandVars, fileVars, bootVars>>

\* The Management API answers; order is the order in which it lists the
\* variables. GetVariables takes 200 only, the two writing calls take any
\* 2xx; every other status is returned as an error with the status and the
\* body.
ApiRespond(status, body, order) ==
    /\ run.pc = "apiwait"
    /\ ~run.cancelled
    /\ wire' = Answered(wire, status, IF Is2xx(status) THEN "" ELSE body)
    /\ remote' = IF Is2xx(status) THEN Applied(run.call) ELSE remote
    /\ run' = IF run.call.name = "GetVariables"
              THEN IF status = 200
                   THEN [run EXCEPT !.pc = "returned", !.callErr = NoFailure,
                                    !.variables = FlagsAt(order, remote)]
                   ELSE [run EXCEPT !.pc = "returned",
                                    !.callErr = StatusError("failed to fetch variables", status, body)]
              ELSE IF Is2xx(status)
                   THEN [run EXCEPT !.pc = "returned", !.callErr = NoFailure]
                   ELSE [run EXCEPT !.pc = "returned",
                                    !.callErr = StatusError(IF run.call.name = "UpdateVariable"
                                                            THEN "failed to update variable"
                                                            ELSE "failed to create feature", status, body)]
    /\ UNCHANGED <<backend, local, hist, managerVars, clientVars, lockVars, instanceVars, commandVars, fileVars, bootVars>>

\* The context is cancelled while the API request is out: Do returns the
\* context's error; the server may or may not have carried the request out.
ApiAbort(applied) ==
    /\ run.pc = "apiwait"
    /\ run.cancelled
    /\ wire' = Answered(wire, GaveUp, "")
    /\ remote' = IF applied THEN Applied(run.call) ELSE remote
    /\ run' = [run EXCEPT !.pc = "returned", !.callErr = ContextError(run.call.method)]
    /\ UNCHANGED <<backend, local, hist, managerVars, clientVars, lockVars, instanceVars, commandVars, fileVars, bootVars>>

\* The orders in which the second loop of Compare may walk remoteMap.
RunRemoteOrders == Perms(DOMAIN DevCycleRemoteMap(FlagMap(run.variables)))

\* The operation takes the client call's return: GetVariables ends Pull and
\* Compare and opens the loop of Push (or ends it with the error); a create
\* or update is entered into Created, Updated or Errors.
Advance(localOrder, remoteOrder) ==
    /\ run.pc = "returned"
    /\ run' =
         IF run.call.name = "GetVariables"
         THEN IF run.callErr # NoFailure
              THEN [run EXCEPT !.pc = "done", !.err = run.callErr, !.out = <<>>]
              ELSE IF run.op = "Pull"
              THEN [run EXCEPT !.pc = "done", !.out = <<PulledFlags(run.variables)>>]
              ELSE IF run.op = "Compare"
              THEN [run EXCEPT !.pc = "done",
                               !.out = <<DevCycleDiff(FlagMap(local),
                                                      DevCycleRemoteMap(FlagMap(run.variables)),
                                                      localOrder, remoteOrder)>>]
              ELSE [run EXCEPT !.pc = "loop", !.remoteMap = FlagMap(run.variables), !.next = 1]
         ELSE LET flag == local[run.call.flag]
                  verb == IF run.call.name = "UpdateVariable" THEN "update" ELSE "create"
              IN  IF run.callErr # NoFailure
                  THEN [run EXCEPT !.pc = "loop", !.next = @ + 1,
                                   !.result.Errors = Append(@, [op |-> verb, key |-> flag.Key,
                                                                cause |-> run.callErr])]
                  ELSE IF verb = "update"
                  THEN [run EXCEPT !.pc = "loop", !.next = @ + 1, !.result.Updated = Append(@, flag)]
                  ELSE [run EXCEPT !.pc = "loop", !.next = @ + 1, !.result.Created = Append(@, flag)]
    /\ UNCHANGED <<wire, managerVars, clientVars, syncVars, lockVars, instanceVars, commandVars, fileVars, bootVars>>

\* A loop that walks local.Flags from its end.
PushLoopBackwards ==
    /\ run.pc = "loop"
    /\ run' =
         IF run.next > Len(local)
         THEN [run EXCEPT !.pc = "done", !.out = <<run.result>>, !.err = NoFailure]
         ELSE LET at == Len(local) + 1 - run.next
                  flag == local[at]
                  variable == flagToVariable(flag)
              IN  IF flag.Key \in DOMAIN run.remoteMap
                  THEN IF variableNeedsUpdate(run.remoteMap[flag.Key], variable)
                       THEN IF ~run.dryRun
                            THEN [run EXCEPT !.pc = "lock",
                                             !.call = ClientCall("UpdateVariable", "PATCH", "variables",
                                                                 flag.Key, at)]
                            ELSE [run EXCEPT !.next = @ + 1, !.result.Updated = Append(@, flag)]
                       ELSE [run EXCEPT !.next = @ + 1, !.result.Unchanged = Append(@, flag)]
                  ELSE IF ~run.dryRun
                       THEN [run EXCEPT !.pc = "lock",
                                        !.call = ClientCall("CreateFeatureWithVariable", "POST", "features",
                                                            flag.Key, at)]
                       ELSE [run EXCEPT !.next = @ + 1, !.result.Created = Append(@, flag)]
    /\ UNCHANGED <<wire, managerVars, clientVars, syncVars, lockVars, instanceVars, commandVars, fileVars, bootVars>>

\* for _, flag := range local.Flags: the next flag is classified; one that
\* needs no request is entered at once, for the others UpdateVariable or
\* CreateFeatureWithVariable is called. After the last flag Push returns
\* (result, nil).
PushLoop ==
    /\ run.pc = "loop"
    /\ run' =
         IF run.next > Len(local)
         THEN [run EXCEPT !.pc = "done", !.out = <<run.result>>, !.err = NoFailure]
         ELSE LET flag == local[run.next]
                  variable == flagToVariable(flag)
              IN  IF flag.Key \in DOMAIN run.remoteMap
                  THEN IF variableNeedsUpdate(run.remoteMap[flag.Key], variable)
                       THEN IF ~run.dryRun
                            THEN [run EXCEPT !.pc = "lock",
                                             !.call = ClientCall("UpdateVariable", "PATCH", "variables",
                                                                 flag.Key, run.next)]
                            ELSE [run EXCEPT !.next = @ + 1, !.result.Updated = Append(@, flag)]
                       ELSE [run EXCEPT !.next = @ + 1, !.result.Unchanged = Append(@, flag)]
                  ELSE IF ~run.dryRun
                       THEN [run EXCEPT !.pc = "lock",
                                        !.call = ClientCall("CreateFeatureWithVariable", "POST", "features",
                                                            flag.Key, run.next)]
                       ELSE [run EXCEPT !.next = @ + 1, !.result.Created = Append(@, flag)]
    /\ UNCHANGED <<wire, managerVars, clientVars, syncVars, lockVars, instanceVars, commandVars, fileVars, bootVars>>

\* The caller cancels the context, or its deadline passes.
CancelContext ==
    /\ run.pc \notin {"idle", "done"}
    /\ ~run.cancelled
    /\ run' = [run EXCEPT !.cancelled = TRUE, !.cancelledAt = Len(wire),
                          !.cancelledIn = IF run.pc = "lock" /\ tokenMu = 0 THEN "call" ELSE run.pc]
    /\ UNCHANGED <<wire, managerVars, clientVars, syncVars, lockVars, instanceVars, commandVars, fileVars, bootVars>>

\* The clock moves on.
ClockTick ==
    /\ now < MaxTime
    /\ now' = now + 1
    /\ UNCHANGED <<accessToken, tokenExpiry, tokenMu, pc, blocked, hit, exch, authCount, firstAuth, sent>>
    /\ UNCHANGED <<run, wire, managerVars, syncVars, lockVars, instanceVars, commandVars, fileVars, bootVars>>

\* Another goroutine's authenticate takes c.tokenMu ...
OtherLocks ==
    /\ tokenMu = 0
    /\ run.pc \notin {"idle", "done"}
    /\ tokenMu' = OtherCaller
    /\ UNCHANGED <<accessToken, tokenExpiry, now, pc, blocked, hit, exch, authCount, firstAuth, sent>>
    /\ UNCHANGED <<run, wire, managerVars, syncVars, lockVars, instanceVars, commandVars, fileVars, bootVars>>

\* ... and gives it back.
OtherUnlocks ==
    /\ tokenMu = OtherCaller
    /\ tokenMu' = 0
    /\ UNCHANGED <<accessToken, tokenExpiry, now, pc, blocked, hit, exch, authCount, firstAuth, sent>>
    /\ UNCHANGED <<run, wire, managerVars, syncVars, lockVars, instanceVars, commandVars, fileVars, bootVars>>

NextRun ==
    \/ \E op \in {"Pull", "Push", "Compare"}, dryRun \in BOOLEAN : Begin(op, dryRun)
    \/ TokenLock
    \/ TokenCheck
    \/ AuthSend
    \/ \E status \in AuthStatuses, body \in ErrorBodies, tok \in RunTokens, n \in RunExpiresIn :
          AuthRespond(status, body, tok, n)
    \/ AuthAbort
    \/ ApiSend
    \/ \E status \in ApiStatuses, body \in ErrorBodies, order \in Perms(DOMAIN remote) :
          ApiRespond(status, body, order)
    \/ \E applied \in BOOLEAN : ApiAbort(applied)
    \/ \E lo \in LocalOrders, ro \in RunRemoteOrders : Advance(lo, ro)
    \/ PushLoop
    \/ CancelContext
    \/ ClockTick
    \/ OtherLocks
    \/ OtherUnlocks

(***************************************************************************)
(* Part 8: loading and saving manifests                                    *)
(***************************************************************************)

\* A manifest is a JSON document {"flags": {key: {flagType, description,
\* defaultValue, expiry}}}. members are the members of its "flags" object in
\* the order of the text (a text may repeat a key), valid is FALSE for a
\* text that is not JSON, and of holds the Flagset it was marshalled from
\* (<<>> for a text written by somebody else).
NoExpiry == <<>>
Member(key, flagType, description, defaultValue, expiry) ==
    [key |-> key, flagType |-> flagType, description |-> description,
     defaultValue |-> defaultValue, expiry |-> expiry]
Document(valid, members, of) == [valid |-> valid, members |-> members, of |-> of]
NoManifest == Document(FALSE, <<>>, <<>>)

\* Members of one manifest text.
MaxMembers == 2

\* JSON literals of default values; encoding/json decodes both 1 and 1.0 to
\* float64(1) and encodes float64(1) as 1.
JSONLiterals == {"true", "false", "1", "1.0", "\"false\""}
JSONDecode(literal) ==
    CASE literal = "true"      -> "bool(true)"
      [] literal = "false"     -> "bool(false)"
      [] literal = "1"         -> "float64(1)"
      [] literal = "1.0"       -> "float64(1)"
      [] literal = "\"false\"" -> "string(false)"
JSONEncode(v) ==
    CASE v = "bool(true)"    -> "true"
      [] v = "bool(false)"   -> "false"
      [] v = "float64(1)"    -> "1"
      [] v = "string(false)" -> "\"false\""

\* errors of the loaders
NoParseError == [kind |-> "nil", arg |-> ""]
SyntaxError == [kind |-> "json", arg |-> ""]
UnknownTypeError(typeStr) == [kind |-> "unknown flag type", arg |-> typeStr]
SourceFormatError == [kind |-> "failed to parse flags", arg |-> ""]

\* ParseFlagType(typeStr)
ParseFlagType(typeStr) ==
    CASE typeStr \in {"integer", "Integer"}         -> [type |-> IntType, err |-> NoParseError]
      [] typeStr \in {"float", "Float", "Number"}   -> [type |-> FloatType, err |-> NoParseError]
      [] typeStr \in {"boolean", "bool", "Boolean"} -> [type |-> BoolType, err |-> NoParseError]
      [] typeStr \in {"string", "String"}           -> [type |-> StringType, err |-> NoParseError]
      [] typeStr \in {"object", "Object", "JSON"}   -> [type |-> ObjectType, err |-> NoParseError]
      [] OTHER -> [type |-> UnknownFlagType, err |-> UnknownTypeError(typeStr)]

\* A String method that prints the names of the DevCycle API.
FlagTypeStringDevCycle(f) ==
    CASE f = IntType    -> "Number"
      [] f = FloatType  -> "Number"
      [] f = BoolType   -> "Boolean"
      [] f = StringType -> "String"
      [] f = ObjectType -> "JSON"
      [] OTHER          -> "unknown"

\* func (f FlagType) String() string
FlagTypeString(f) ==
    CASE f = IntType    -> "integer"
      [] f = FloatType  -> "float"
      [] f = BoolType   -> "boolean"
      [] f = StringType -> "string"
      [] f = ObjectType -> "object"
      [] OTHER          -> "unknown"

\* flagset.Flag with its expiry
FlagOf(key, type, description, defaultValue, expiry) ==
    [Key |-> key, Type |-> type, Description |-> description,
     DefaultValue |-> defaultValue, Expiry |-> expiry]

\* The Flag a member is decoded into; a member without expiry decodes to "".
MemberFlag(m) ==
    FlagOf(m.key, ParseFlagType(m.flagType).type, m.description, JSONDecode(m.defaultValue),
           IF m.expiry = NoExpiry THEN "" ELSE m.expiry[1])

\* json.Unmarshal into map[string]struct{...}: the last member of a key stays.
MemberMap(members) ==
    [k \in {members[i].key : i \in DOMAIN members} |->
        members[CHOOSE i \in DOMAIN members :
                   members[i].key = k /\ \A j \in DOMAIN members : members[j].key = k => j <= i]]

\* sort.Slice(fs.Flags, ... Key < Key) on flags with distinct keys
SortFlags(flags) == FlagsAt(SortKeys(KeysOf(flags)), FlagMap(flags))

\* The flags UnmarshalJSON has appended when it has walked the map in the
\* order `order` up to its end or up to the first type it cannot parse.
RECURSIVE Appended(_, _)
Appended(order, m) ==
    IF order = <<>> \/ ParseFlagType(m[Head(order)].flagType).err # NoParseError
    THEN <<>>
    ELSE <<MemberFlag(m[Head(order)])>> \o Appended(Tail(order), m)

\* The result of a loader: the Flagset it leaves, its error, which loader
\* it was, and the document or project it read.
Loaded(flags, err, from, doc) == [Flags |-> flags, err |-> err, from |-> from, doc |-> doc]
NoFlagset == Loaded(<<>>, NoParseError, "none", NoManifest)

\* (fs *Flagset).UnmarshalJSON(data) on an empty Flagset; order is the order
\* in which `range manifest.Flags` walks the map.
UnmarshalJSON(doc, order) ==
    IF ~doc.valid
    THEN Loaded(<<>>, SyntaxError, "manifest", doc)
    ELSE LET m == MemberMap(doc.members)
             unknown == {k \in DOMAIN m : ParseFlagType(m[k].flagType).err # NoParseError}
         IN  IF unknown # {}
             THEN Loaded(Appended(order, m),
                         ParseFlagType(m[order[CHOOSE i \in DOMAIN order :
                                                  /\ order[i] \in unknown
                                                  /\ \A j \in DOMAIN order : order[j] \in unknown => i <= j]].flagType).err,
                         "manifest", doc)
             ELSE Loaded(SortFlags(Appended(order, m)), NoParseError, "manifest", doc)

\* LoadFromSourceFlags(data): the flags in the order of the array, or the
\* error of the first type it cannot parse.
LoadFromSourceFlags(doc) ==
    IF ~doc.valid
    THEN Loaded(<<>>, SourceFormatError, "source", doc)
    ELSE LET bad == {i \in DOMAIN doc.members : ParseFlagType(doc.members[i].flagType).err # NoParseError}
         IN  IF bad # {}
             THEN Loaded(<<>>, ParseFlagType(doc.members[CHOOSE i \in bad : \A j \in bad : i <= j].flagType).err,
                         "source", doc)
             ELSE Loaded([i \in DOMAIN doc.members |-> MemberFlag(doc.members[i])], NoParseError,
                         "source", doc)

\* (fs *Flagset).MarshalJSON(): the flags are put into a map by key and
\* json.Marshal writes the map's keys in ascending order; an empty expiry is
\* left out.
MarshalJSON(flags) ==
    LET m == FlagMap(flags)
        keys == SortKeys(DOMAIN m)
    IN  Document(TRUE,
                 [i \in DOMAIN keys |->
                    Member(keys[i], FlagTypeString(m[keys[i]].Type), m[keys[i]].Description,
                           JSONEncode(m[keys[i]].DefaultValue),
                           IF m[keys[i]].Expiry = "" THEN NoExpiry ELSE <<m[keys[i]].Expiry>>)],
                 <<flags>>)

\* The manifest texts a user may have written.
DocTypeNames == {"integer", "Number", "bool", "percentage"}
DocLiterals == {"true", "1.0", "\"false\""}
DocExpiries == {NoExpiry, <<"2025-12-31">>}
DocMembers ==
    {Member(k, t, "d1", v, x) : k \in Keys, t \in DocTypeNames, v \in DocLiterals, x \in DocExpiries}
Documents ==
    {NoManifest} \cup
    {Document(TRUE, members, <<>>) :
        members \in UNION {[1..n -> DocMembers] : n \in 0..MaxMembers}}

\* DevCycle projects a Pull may read.
FileRemotes ==
    {<<>>,
     [k \in {"alpha", "beta"} |-> Flag(k, <<"Boolean", "bool(true)">>, "d1")],
     [k \in {"alpha", "beta"} |->
         IF k = "alpha" THEN Flag(k, <<"Percentage", "float64(1)">>, "d1")
         ELSE Flag(k, <<"Number", "float64(1)">>, "d1")]}

FilesIdle ==
    /\ manifest = NoManifest
    /\ flagset = NoFlagset

\* json.Unmarshal(data, &fs) of the manifest file into a new Flagset
Load(order) ==
    /\ flagset' = UnmarshalJSON(manifest, order)
    /\ UNCHANGED <<manifest, managerVars, clientVars, syncVars, lockVars, instanceVars, commandVars, runVars, bootVars>>

\* LoadFromSourceFlags on the same text read as a list of source flags
LoadSource ==
    /\ flagset' = LoadFromSourceFlags(manifest)
    /\ UNCHANGED <<manifest, managerVars, clientVars, syncVars, lockVars, instanceVars, commandVars, runVars, bootVars>>

\* Plugin.Pull of the DevCycle plugin with a successful fetch; order is the
\* order in which the API lists the variables. A pulled flag has no expiry.
PullFlagset(order) ==
    /\ LET flags == PulledFlags(FlagsAt(order, remote))
       IN  flagset' = Loaded([i \in DOMAIN flags |->
                                FlagOf(flags[i].Key, flags[i].Type, flags[i].Description,
                                       flags[i].DefaultValue, "")],
                             NoParseError, "pull", NoManifest)
    /\ UNCHANGED <<manifest, managerVars, clientVars, syncVars, lockVars, instanceVars, commandVars, runVars, bootVars>>

\* json.Marshal(fs) of a Flagset that was loaded or pulled becomes the manifest file
Save ==
    /\ flagset.from # "none"
    /\ flagset.err = NoParseError
    /\ manifest' = MarshalJSON(flagset.Flags)
    /\ UNCHANGED <<flagset, managerVars, clientVars, syncVars, lockVars, instanceVars, commandVars, runVars, bootVars>>

NextFiles ==
    \/ \E order \in Perms({manifest.members[i].key : i \in DOMAIN manifest.members}) : Load(order)
    \/ LoadSource
    \/ \E order \in Perms(DOMAIN remote) : PullFlagset(order)
    \/ Save

(***************************************************************************)
(* Part 9: process start (the init functions of the plugin packages)       *)
(***************************************************************************)

\* Where the process is: package builtin imports package devcycle
\* (register.go), so devcycle's init runs first, then builtin's, then main;
\* a panic in an init ends the process.
InitDevCycle == "init devcycle"
InitBuiltin == "init builtin"
Main == "main"
Panicked == "panicked"

\* The process is past its package initialisation.
Started == boot = Main

\* The factories the two packages register: NewDefaultPlugin and devcycle.NewPlugin.
NewDefaultPlugin == 1
NewPlugin == 2

\* func init() { if err := plugin.Register(factory); err != nil { panic(...) } }
\* on the registry m.
init(m, factory) ==
    LET meta == Metadata(factory) IN
    IF meta.Name = "" \/ meta.Name \in DOMAIN m
    THEN [plugins |-> m, err |-> TRUE, panicked |-> TRUE]
    ELSE [plugins |-> [n \in DOMAIN m \cup {meta.Name} |-> IF n = meta.Name THEN PluginInfo(factory) ELSE m[n]],
          err |-> FALSE, panicked |-> FALSE]

\* A start in which package devcycle is not linked in.
DevCycleInitSkipped ==
    /\ boot = InitDevCycle
    /\ boot' = InitBuiltin
    /\ UNCHANGED <<managerVars, clientVars, syncVars, lockVars, instanceVars, commandVars, runVars, fileVars>>

\* init of package devcycle
DevCycleInit ==
    /\ boot = InitDevCycle
    /\ LET out == init(plugins, NewPlugin) IN
       /\ plugins' = out.plugins
       /\ lastOp' = [op |-> "Register", arg |-> NewPlugin, err |-> out.err, out |-> 0]
       /\ boot' = IF out.panicked THEN Panicked ELSE InitBuiltin
    /\ UNCHANGED <<snapshot, clientVars, syncVars, lockVars, instanceVars, commandVars, runVars, fileVars>>

\* init of package builtin
BuiltinInit ==
    /\ boot = InitBuiltin
    /\ LET out == init(plugins, NewDefaultPlugin) IN
       /\ plugins' = out.plugins
       /\ lastOp' = [op |-> "Register", arg |-> NewDefaultPlugin, err |-> out.err, out |-> 0]
       /\ boot' = IF out.panicked THEN Panicked ELSE Main
    /\ UNCHANGED <<snapshot, clientVars, syncVars, lockVars, instanceVars, commandVars, runVars, fileVars>>

\* After start the commands read the default manager.
NextStart ==
    \/ DevCycleInit
    \/ BuiltinInit
    \/ Started /\ \E n \in Names : Get(n)
    \/ Started /\ \E n \in Names : GetInfo(n)
    \/ Started /\ ListCall
    \/ Started /\ GetAllCall
    \/ Started /\ \E n \in Names : HasPluginCall(n)
    \/ Started /\ \E n \in Names \ {""}, f \in Factories : SnapshotPut(n, f)
    \/ Started /\ \E n \in Names : SnapshotDelete(n)

(***************************************************************************)
(* The specifications                                                      *)
(***************************************************************************)

\* The sync part before any plugin is configured.
SyncIdle ==
    /\ backend = "default"
    /\ local = <<>>
    /\ remote = <<>>
    /\ hist = <<>>

InitIdle ==
    /\ InitManager /\ InitClient /\ SyncIdle /\ LocksIdle /\ InstancesIdle /\ CommandIdle
    /\ RunIdle /\ FilesIdle /\ Started
InitPlugins ==
    /\ InitManager /\ InitClient /\ InitSync /\ LocksIdle /\ InstancesIdle /\ CommandIdle
    /\ RunIdle /\ FilesIdle /\ Started

SpecManager == InitIdle /\ [][NextManager]_vars
SpecClient  == InitIdle /\ [][NextClient]_vars
SpecSync    == InitPlugins /\ [][NextSync]_vars

\* The process after package initialisation: both built-in plugins registered.
InitBuiltins ==
    /\ plugins = BuiltinPlugins
    /\ lastOp = NoOp
    /\ snapshot = NoSnapshot
    /\ InitClient /\ SyncIdle /\ LocksIdle /\ InitInstances /\ CommandIdle
    /\ RunIdle /\ FilesIdle /\ Started

SpecInstances == InitBuiltins /\ [][NextInstances]_vars

InitRegistry ==
    /\ InitManager /\ InitClient /\ SyncIdle /\ InitLocks /\ InstancesIdle /\ CommandIdle
    /\ RunIdle /\ FilesIdle /\ Started

SpecRegistry == InitRegistry /\ [][NextRegistry]_vars

\* The Go scheduler runs every goroutine that can take a step. A goroutine
\* in Lock() or RLock() is not passed over for ever: sync.RWMutex queues
\* writers on a sync.Mutex, which hands over in arrival order once a waiter
\* has starved, and Unlock lets in the readers that waited for it.
GoroutineSteps(g) ==
    \/ LockAcquired(g)
    \/ RegisterCheck(g)
    \/ RegisterWrite(g)
    \/ Unlock(g)
    \/ Read(g)
    \/ ReadNames(g)
    \/ RUnlock(g)
FairRegistry ==
    \A g \in Goroutines :
        /\ WF_vars(GoroutineSteps(g))
        /\ SF_vars(Lock(g))
        /\ SF_vars(RLock(g))
\* The calls whose termination is in question, with one factory and one
\* name: Register, Get, List, PrintPluginsTable and PrintPluginDetails.
CalledFactory == CHOOSE f \in Factories : Metadata(f).Name = "default"
CalledName == Metadata(CalledFactory).Name
NextCalls ==
    \/ \E g \in Goroutines : Go(g, "Register", CalledFactory)
    \/ \E g \in Goroutines : Go(g, "Get", CalledName)
    \/ \E g \in Goroutines : Go(g, "List", 0)
    \/ \E g \in Goroutines : Go(g, "PrintPluginsTable", 0)
    \/ \E g \in Goroutines : Go(g, "PrintPluginDetails", CalledName)
    \/ \E g \in Goroutines : Lock(g)
    \/ \E g \in Goroutines : LockAcquired(g)
    \/ \E g \in Goroutines : RegisterCheck(g)
    \/ \E g \in Goroutines : RegisterWrite(g)
    \/ \E g \in Goroutines : Unlock(g)
    \/ \E g \in Goroutines : RLock(g)
    \/ \E g \in Goroutines : Read(g)
    \/ \E g \in Goroutines : ReadNames(g)
    \/ \E g \in Goroutines : RUnlock(g)
SpecRegistryFair == InitRegistry /\ [][NextCalls]_vars /\ FairRegistry

InitPushCommand ==
    /\ InitCommand /\ InitClient /\ SyncIdle /\ LocksIdle
    /\ RunIdle /\ FilesIdle /\ Started

SpecCommand == InitPushCommand /\ [][NextCommand]_vars

InitRun ==
    /\ InitManager /\ InitClient /\ LocksIdle /\ InstancesIdle /\ CommandIdle /\ RunIdle /\ FilesIdle
    /\ Started
    /\ backend = "devcycle"
    /\ local = RunLocal
    /\ remote \in RunRemotes
    /\ hist = <<>>

SpecRun == InitRun /\ [][NextRun]_vars

\* The same operation with its scheduling: the goroutine takes its next step,
\* the endpoints answer or the 30 s timeout of the http.Client ends the wait,
\* the other goroutine leaves authenticate, and sync.RWMutex hands the lock
\* to a waiting goroutine sooner or later (it does not starve waiters).
RunSteps ==
    \/ TokenCheck
    \/ AuthSend
    \/ \E status \in AuthStatuses, body \in ErrorBodies, tok \in RunTokens, n \in RunExpiresIn :
          AuthRespond(status, body, tok, n)
    \/ AuthAbort
    \/ \E status \in ApiStatuses, body \in ErrorBodies, order \in Perms(DOMAIN remote) :
          ApiRespond(status, body, order)
    \/ \E applied \in BOOLEAN : ApiAbort(applied)
    \/ \E lo \in LocalOrders, ro \in RunRemoteOrders : Advance(lo, ro)
    \/ PushLoop

FairRun ==
    /\ WF_vars(RunSteps)
    /\ WF_vars(OtherUnlocks)
    /\ SF_vars(TokenLock)
    /\ SF_vars(ApiSend)

SpecRunFair == InitRun /\ [][NextRun]_vars /\ FairRun

InitFiles ==
    /\ InitManager /\ InitClient /\ LocksIdle /\ InstancesIdle /\ CommandIdle /\ RunIdle
    /\ Started
    /\ backend = "devcycle"
    /\ local = <<>>
    /\ remote \in FileRemotes
    /\ hist = <<>>
    /\ manifest \in Documents
    /\ flagset = NoFlagset

SpecFiles == InitFiles /\ [][NextFiles]_vars

InitStart ==
    /\ InitManager /\ InitClient /\ SyncIdle /\ LocksIdle /\ InstancesIdle /\ CommandIdle
    /\ RunIdle /\ FilesIdle
    /\ boot = InitDevCycle

SpecStart == InitStart /\ [][NextStart]_vars

(***************************************************************************)
(* Properties of the registry (checked under SpecManager)                  *)
(***************************************************************************)

\* C1: Register fails exactly when the factory's metadata name is empty or is
\* already registered; a failed Register leaves the registry as it was (same
\* List, GetAll, HasPlugin), no entry is ever replaced, and Get(name) invokes
\* the factory of the first registration of that name.
C1_RegisterRejectsExactly ==
    [][ /\ \A n \in DOMAIN plugins : n \in DOMAIN plugins' /\ plugins'[n] = plugins[n]
        /\ lastOp'.op = "Register" =>
              LET name == Metadata(lastOp'.arg).Name
                  bad  == name = "" \/ name \in DOMAIN plugins
              IN  /\ lastOp'.err <=> bad
                  /\ lastOp'.err =>
                        /\ plugins' = plugins
                        /\ List(plugins') = List(plugins)
                        /\ GetAll(plugins') = GetAll(plugins)
                        /\ \A n \in Names : HasPlugin(plugins', n) = HasPlugin(plugins, n)
                  /\ ~lastOp'.err =>
                        /\ plugins'[name].Factory = lastOp'.arg
                        /\ DOMAIN plugins' = DOMAIN plugins \cup {name}
        /\ (lastOp'.op = "Get" /\ ~lastOp'.err) => lastOp'.out = plugins[lastOp'.arg].Factory
      ]_vars

\* A second factory of a registered name has just been rejected and the first one is still there.
C1_Witness ==
    /\ lastOp.op = "Register"
    /\ lastOp.err
    /\ Metadata(lastOp.arg).Name \in DOMAIN plugins
    /\ plugins[Metadata(lastOp.arg).Name].Factory # lastOp.arg

\* C12: List returns the successfully registered names, each once, in
\* ascending order: the registry's names are exactly those of the successful
\* Register calls so far (none on a new Manager), and List is their sorted,
\* duplicate-free enumeration.
C12_ListSortedRegisteredNames ==
    /\ [](LET l == List(plugins) IN
            /\ Range(l) = DOMAIN plugins
            /\ Len(l) = Cardinality(DOMAIN plugins)
            /\ \A i, j \in DOMAIN l : i < j => Rank(l[i]) < Rank(l[j])
            /\ lastOp.op = "List" => lastOp.out = l
            /\ lastOp.op = "none" => l = <<>>)
    /\ [][DOMAIN plugins' = DOMAIN plugins \cup
              (IF lastOp'.op = "Register" /\ ~lastOp'.err
               THEN {Metadata(lastOp'.arg).Name} ELSE {})]_vars

\* List has just returned two names, registered in descending order.
C12_Witness ==
    /\ lastOp.op = "List"
    /\ Len(lastOp.out) = 2
    /\ lastOp.out = <<"default", "devcycle">>
    /\ plugins["devcycle"].Factory = 2
    /\ plugins["default"].Factory = 4

\* C13: the map GetAll returns holds exactly the entries registered at the
\* call; a later Register leaves the returned map as it is; and a caller's
\* write to or delete from the returned map leaves the registry (hence Get,
\* List and HasPlugin) as it is.
C13_GetAllReturnsSnapshot ==
    [][ /\ lastOp'.op = "GetAll" => (snapshot'.held /\ SnapshotView' = plugins /\ lastOp'.out = plugins)
        /\ lastOp'.op = "Register" => SnapshotView' = SnapshotView
        /\ lastOp'.op \in {"SnapshotPut", "SnapshotDelete"} =>
              /\ plugins' = plugins
              /\ List(plugins') = List(plugins)
              /\ \A n \in Names : HasPlugin(plugins', n) = HasPlugin(plugins, n)
      ]_vars

\* The caller deleted a name from the map it holds and replaced another
\* entry; Get of the deleted name still returns the registered factory.
C13_Witness ==
    /\ snapshot.held
    /\ lastOp.op = "Get" /\ ~lastOp.err
    /\ lastOp.arg \notin DOMAIN SnapshotView
    /\ \E n \in DOMAIN SnapshotView \cap DOMAIN plugins : SnapshotView[n].Factory # plugins[n].Factory
    /\ \E n \in DOMAIN plugins : n \notin DOMAIN SnapshotView

\* C15: Get and GetInfo of a name that is not registered return an error and
\* nothing else (no factory is called), and change nothing; HasPlugin answers
\* whether the name is registered, which it is exactly after a successful
\* Register of that name.
C15_UnknownNameIsAnError ==
    [][ /\ (lastOp'.op \in {"Get", "GetInfo"} /\ lastOp'.arg \notin DOMAIN plugins) =>
              /\ lastOp'.err
              /\ lastOp'.op = "Get" => lastOp'.out = 0
              /\ lastOp'.op = "GetInfo" => lastOp'.out = ZeroPluginInfo
              /\ plugins' = plugins
        /\ (lastOp'.op \in {"Get", "GetInfo"} /\ lastOp'.arg \in DOMAIN plugins) => ~lastOp'.err
        /\ lastOp'.op = "HasPlugin" => (lastOp'.out <=> lastOp'.arg \in DOMAIN plugins)
        /\ \A n \in Names :
              (n \in DOMAIN plugins' /\ n \notin DOMAIN plugins) =>
                  (lastOp'.op = "Register" /\ ~lastOp'.err /\ Metadata(lastOp'.arg).Name = n)
        /\ \A n \in DOMAIN plugins : n \in DOMAIN plugins'
      ]_vars

\* Get of a name failed while another name was registered.
C15_Witness ==
    /\ lastOp.op = "Get" /\ lastOp.err
    /\ lastOp.arg # ""
    /\ lastOp.arg \notin DOMAIN plugins
    /\ plugins # <<>>

(***************************************************************************)
(* Properties of the token cache (checked under SpecClient)                *)
(***************************************************************************)

\* C2: every API request is preceded, within its doRequest, by exactly one
\* OAuth exchange when the validity check found the cached token absent or
\* expired, and by none when it found a non-empty token with now < expiry;
\* the validity check reads the cached token and the clock as they are then.
C2_ExchangePerRequest ==
    /\ [](\A c \in Callers :
            (pc[c] = "send" \/ sent[c] # NotSent) => exch[c] = (IF hit[c] THEN 0 ELSE 1))
    /\ [][\A c \in Callers :
            (pc[c] = "check" /\ pc'[c] # "check") =>
                (hit'[c] <=> (accessToken # "" /\ now < tokenExpiry))]_vars

\* Both cases on one long-lived client: a request that reused the token, and a
\* request sent after the re-authentication that followed the first token's expiry.
C2_Witness ==
    \E c1, c2 \in Callers :
        /\ sent[c1] # NotSent /\ hit[c1] /\ exch[c1] = 0
        /\ sent[c2] # NotSent /\ ~hit[c2] /\ exch[c2] = 1
        /\ authCount = 2
        /\ firstAuth.ok /\ firstAuth.tok # "" /\ 0 < firstAuth.expiry /\ firstAuth.expiry <= now

\* C3: when the first OAuth exchange succeeded with a token that is still
\* valid, it is the only exchange made so far, however many callers asked.
C3_SingleRefresh ==
    (firstAuth.done /\ firstAuth.ok /\ firstAuth.tok # "" /\ now < firstAuth.expiry)
        => authCount = 1

\* Two callers found no token; one refreshed while the other waited for the
\* lock, then found the new token valid and sent its request with it.
C3_Witness ==
    \E c1, c2 \in Callers :
        /\ c1 # c2
        /\ ~hit[c1] /\ exch[c1] = 1 /\ sent[c1] # NotSent
        /\ blocked[c2] /\ hit[c2] /\ exch[c2] = 0 /\ sent[c2] = accessToken
        /\ authCount = 1
        /\ firstAuth.ok /\ firstAuth.tok # "" /\ now < firstAuth.expiry

(***************************************************************************)
(* Properties of Push and Compare (checked under SpecSync)                 *)
(***************************************************************************)

Pushes == {i \in DOMAIN hist : hist[i].op = "Push"}
Compares == {i \in DOMAIN hist : hist[i].op = "Compare"}
DiffKeys(diffs) == {diffs[i].Key : i \in DOMAIN diffs}
IsMutation(req) == req.method # "GET"

\* C4: after a real Push whose backend calls all succeeded, a second Push of
\* the same local flagset reports nothing Created and nothing Updated,
\* whatever the remote state was before the first Push.
C4_IdempotentPush ==
    \A i \in Pushes :
        (/\ i + 1 \in Pushes
         /\ ~hist[i].dryRun /\ ~hist[i].err /\ hist[i].failed = {}
         /\ ~hist[i + 1].err)
            => /\ hist[i + 1].result.Created = <<>>
               /\ hist[i + 1].result.Updated = <<>>

\* C5: a Push with DryRun set issues the fetch of the remote state and no
\* other request, and leaves the remote state as it found it.
C5_DryRunSendsNothing ==
    \A i \in Pushes :
        hist[i].dryRun =>
            /\ hist[i].after = hist[i].before
            /\ Len(hist[i].reqs) = 1
            /\ ~IsMutation(hist[i].reqs[1])

\* A dry run of the DevCycle plugin that planned a create and an update.
C5_Witness ==
    \E i \in Pushes :
        /\ backend = "devcycle"
        /\ hist[i].dryRun /\ ~hist[i].err
        /\ hist[i].result.Created # <<>>
        /\ hist[i].result.Updated # <<>>

\* C6 as stated, for the DevCycle plugin: a dry-run Push and a real Push from
\* the same local flagset and remote state report the same keys in Created and
\* the same keys in Updated.
C6_DryRunEquivalence ==
    backend = "devcycle" =>
        \A i, j \in Pushes :
            (/\ hist[i].dryRun /\ ~hist[i].err
             /\ ~hist[j].dryRun /\ ~hist[j].err
             /\ hist[i].before = hist[j].before)
                => /\ KeysOf(hist[j].result.Created) = KeysOf(hist[i].result.Created)
                   /\ KeysOf(hist[j].result.Updated) = KeysOf(hist[i].result.Updated)

\* C6 amended: for the DevCycle plugin, the real Push reports in Created and in
\* Updated the keys the dry run reports there, less the keys whose create or
\* update call failed; the two agree when no call of the real Push fails.
C6_DryRunEquivalenceExceptFailures ==
    backend = "devcycle" =>
        \A i, j \in Pushes :
            (/\ hist[i].dryRun /\ ~hist[i].err
             /\ ~hist[j].dryRun /\ ~hist[j].err
             /\ hist[i].before = hist[j].before)
                => /\ KeysOf(hist[j].result.Created) = KeysOf(hist[i].result.Created) \ hist[j].failed
                   /\ KeysOf(hist[j].result.Updated) = KeysOf(hist[i].result.Updated) \ hist[j].failed

\* A dry run followed by a real Push from the same remote state, in which one
\* call failed and another went through.
C6_Witness ==
    /\ backend = "devcycle"
    /\ Len(hist) = 2
    /\ hist[1].op = "Push" /\ hist[1].dryRun /\ ~hist[1].err
    /\ hist[2].op = "Push" /\ ~hist[2].dryRun /\ ~hist[2].err
    /\ hist[1].before = hist[2].before
    /\ hist[2].failed # {}
    /\ hist[2].result.Created # <<>> \/ hist[2].result.Updated # <<>>
    /\ hist[1].result.Created # <<>>
    /\ hist[1].result.Updated # <<>>

\* C7: in every Compare result Added, Modified and Unchanged partition the
\* local keys (Added the ones the remote lacks, Modified and Unchanged the ones
\* it has) and Removed holds exactly the remote keys the local flagset lacks.
C7_DiffCompleteness ==
    \A i \in Compares :
        ~hist[i].err =>
            LET r == hist[i].result
                A == KeysOf(r.Added)
                M == DiffKeys(r.Modified)
                U == KeysOf(r.Unchanged)
                L == KeysOf(local)
                R == DOMAIN hist[i].before
            IN  /\ A \cap M = {} /\ A \cap U = {} /\ M \cap U = {}
                /\ Len(r.Added) + Len(r.Modified) + Len(r.Unchanged) = Cardinality(L)
                /\ A = L \ R
                /\ M \cup U = L \cap R
                /\ KeysOf(r.Removed) = R \ L
                /\ Len(r.Removed) = Cardinality(R \ L)

\* C8: a real Push in which a create or update call failed still returns a
\* result and no error, has sent the create or update of every local flag it
\* did not find unchanged, names each failed key in Errors and has it in
\* neither Created nor Updated.
C8_PerFlagFailureIsNotFatal ==
    \A i \in Pushes :
        (~hist[i].dryRun /\ hist[i].failed # {}) =>
            /\ ~hist[i].err
            /\ \A n \in DOMAIN local :
                  \/ local[n].Key \in KeysOf(hist[i].result.Unchanged)
                  \/ \E q \in DOMAIN hist[i].reqs :
                        IsMutation(hist[i].reqs[q]) /\ hist[i].reqs[q].key = local[n].Key
            /\ \A k \in hist[i].failed :
                  /\ \E e \in DOMAIN hist[i].result.Errors : hist[i].result.Errors[e].key = k
                  /\ k \notin KeysOf(hist[i].result.Created)
                  /\ k \notin KeysOf(hist[i].result.Updated)

\* C9: a Compare issues the fetch of the remote state and no other request,
\* and leaves the remote state as it found it, whether it fails or not.
C9_CompareReadsOnly ==
    \A i \in Compares :
        /\ hist[i].after = hist[i].before
        /\ Len(hist[i].reqs) = 1
        /\ ~IsMutation(hist[i].reqs[1])

\* A Compare of the DevCycle plugin that found a modified and a removed flag.
C9_Witness ==
    \E i \in Compares :
        /\ backend = "devcycle"
        /\ ~hist[i].err
        /\ hist[i].result.Modified # <<>>
        /\ hist[i].result.Removed # <<>>

\* C10: a Push sends only fetch, create and update requests, leaves every
\* remote flag whose key the local flagset lacks exactly as it was, and
\* returns an empty Deleted list.
C10_PushNeverDeletes ==
    \A i \in Pushes :
        /\ \A q \in DOMAIN hist[i].reqs : hist[i].reqs[q].method \in {"GET", "POST", "PATCH", "PUT"}
        /\ \A k \in DOMAIN hist[i].before \ KeysOf(local) :
              k \in DOMAIN hist[i].after /\ hist[i].after[k] = hist[i].before[k]
        /\ ~hist[i].err => hist[i].result.Deleted = <<>>

\* A real Push of the DevCycle plugin that created a flag while the remote
\* held a variable the local flagset does not have.
C10_Witness ==
    \E i \in Pushes :
        /\ backend = "devcycle"
        /\ ~hist[i].dryRun /\ ~hist[i].err
        /\ hist[i].result.Created # <<>>
        /\ DOMAIN hist[i].before \ KeysOf(local) # {}
        /\ DOMAIN hist[i].after \ KeysOf(local) # {}

(***************************************************************************)
(* Properties of the registry under concurrent callers (checked under      *)
(* SpecRegistry)                                                           *)
(***************************************************************************)

\* What a call returns when it runs alone on map m, and the map it leaves.
SeqResult(op, arg, m) ==
    IF op = "Register"
    THEN LET name == Metadata(arg).Name IN
         [err |-> IF name = "" THEN "empty" ELSE IF name \in DOMAIN m THEN "exists" ELSE "nil"]
    ELSE IF op \in {"Get", "PrintPluginDetails"}
    THEN IF arg \in DOMAIN m
         THEN [err |-> FALSE, factory |-> m[arg].Factory, available |-> <<>>]
         ELSE [err |-> TRUE, factory |-> 0, available |-> SortStrings(DOMAIN m)]
    ELSE IF op = "PrintPluginsTable"
    THEN [err |-> FALSE, factory |-> 0, available |-> SortStrings(DOMAIN m)]
    ELSE IF op = "GetInfo"
    THEN IF arg \in DOMAIN m THEN [err |-> FALSE, info |-> m[arg]]
         ELSE [err |-> TRUE, info |-> ZeroPluginInfo]
    ELSE IF op = "List" THEN SortStrings(DOMAIN m)
    ELSE IF op = "GetAll" THEN m
    ELSE <<arg \in DOMAIN m>>

SeqAfter(op, arg, m) ==
    IF op = "Register" /\ SeqResult(op, arg, m).err = "nil"
    THEN [n \in DOMAIN m \cup {Metadata(arg).Name} |->
             IF n = Metadata(arg).Name THEN PluginInfo(arg) ELSE m[n]]
    ELSE m

\* The map after the first k calls of mu.acquired have run one after another
\* on the empty map of NewManager.
RECURSIVE Sequential(_)
Sequential(k) ==
    IF k = 0 THEN <<>>
    ELSE SeqAfter(gor[mu.acquired[k]].op, gor[mu.acquired[k]].arg, Sequential(k - 1))

\* Register is about to write the map while another goroutine is about to
\* read or write it.
MapRace ==
    \E w, g \in Goroutines :
        /\ w # g
        /\ gor[w].pc = "write"
        /\ gor[g].pc \in {"check", "write", "read", "names"}

RegistersOf(name) ==
    {g \in Goroutines : gor[g].op = "Register" /\ Metadata(gor[g].arg).Name = name}

Succeeded(g) == gor[g].pc \in {"unlock", "done"} /\ gor[g].res = [err |-> "nil"]

\* C14: whatever the interleaving of concurrent Register, Get, GetInfo, List,
\* GetAll and HasPlugin calls, the map is never read or written while Register
\* writes it, every call returns what it returns when the calls run one at a
\* time in the order they got the lock, and of the Registers with one name
\* at most one succeeds, exactly one once they all returned.
C14_ConcurrentCallsAreSequential ==
    /\ ~MapRace
    /\ mu.writer # 0 => mu.readers = {}
    /\ \A k \in DOMAIN mu.acquired :
          LET g == mu.acquired[k] IN
          gor[g].pc = "done" =>
              gor[g].res = SeqResult(gor[g].op, gor[g].arg, Sequential(k - 1))
    /\ \A g \in Goroutines : gor[g].pc = "done" => g \in Range(mu.acquired)
    /\ \A name \in RegistryNames :
          /\ Cardinality({g \in RegistersOf(name) : Succeeded(g)}) <= 1
          /\ (RegistersOf(name) # {} /\ \A g \in RegistersOf(name) : gor[g].pc = "done") =>
                Cardinality({g \in RegistersOf(name) : Succeeded(g)}) = 1

\* Three goroutines registered the name "default" at once: goroutine 2 got
\* the lock first and succeeded, the other two were rejected.
C14_Witness ==
    /\ \A g \in Goroutines : gor[g].pc = "done"
    /\ RegistersOf("default") = Goroutines
    /\ gor[1].arg # gor[2].arg
    /\ mu.acquired = <<2, 3, 1>>
    /\ gor[2].res = [err |-> "nil"]
    /\ gor[1].res = [err |-> "exists"] /\ gor[3].res = [err |-> "exists"]

(***************************************************************************)
(* Properties of plugin instances (checked under SpecInstances)            *)
(***************************************************************************)

\* C11: a successful Get returns an instance that no earlier Get returned,
\* fresh from its factory, and leaves the earlier instances alone; Configure
\* on one instance changes no other instance; and no two instances hold the
\* same client.
C11_GetReturnsNewInstance ==
    /\ [][ /\ (lastCall'.op = "Get" /\ lastCall'.err = NoError) =>
                 /\ lastCall'.inst \notin DOMAIN instances
                 /\ DOMAIN instances' = DOMAIN instances \cup {lastCall'.inst}
                 /\ instances'[lastCall'.inst] = NewInstance(instances'[lastCall'.inst].kind)
                 /\ \A j \in DOMAIN instances : instances'[j] = instances[j]
           /\ lastCall'.op = "Configure" =>
                 \A j \in DOMAIN instances : j # lastCall'.inst => instances'[j] = instances[j]
         ]_vars
    /\ [](\A i, j \in DOMAIN instances :
            (i # j /\ instances[i].client # NilClient) =>
                instances[i].client.ptr # instances[j].client.ptr)

\* Two instances of the DevCycle plugin: the first has just been configured
\* and holds a client, the second is still as its factory made it.
C11_Witness ==
    /\ Len(instances) = 2
    /\ instances[1].kind = "devcycle" /\ instances[2].kind = "devcycle"
    /\ lastCall.op = "Configure" /\ lastCall.inst = 1
    /\ instances[1].client # NilClient
    /\ instances[1].project = "p1"
    /\ instances[2] = NewInstance("devcycle")

\* What Configure(config) makes of a new instance of the given kind; failed
\* says whether the client constructor returned an error.
ConfiguredAfresh(kind, config, failed) ==
    IF kind = "devcycle"
    THEN DevCycleConfigure(NewInstance(kind), config, 1).p
    ELSE DefaultConfigure(NewInstance(kind), config, 1, failed).p

\* Two clients are the same but for their address.
SameClient(a, b) ==
    /\ (a = NilClient) <=> (b = NilClient)
    /\ a.clientID = b.clientID /\ a.clientSecret = b.clientSecret /\ a.baseURL = b.baseURL

\* C16: after any Configure call the instance's config, project, environment
\* and client are what that call alone leaves on a new instance, whatever an
\* earlier Configure had set and whether or not the call failed; and the call
\* issues no network request.
C16_ConfigureLastCallWins ==
    lastCall.op = "Configure" =>
        LET p == instances[lastCall.inst]
            fresh == ConfiguredAfresh(p.kind, p.config, lastCall.err # NoError)
        IN  /\ lastCall.reqs = <<>>
            /\ p.config = fresh.config
            /\ p.project = fresh.project
            /\ p.environment = fresh.environment
            /\ SameClient(p.client, fresh.client)

\* The plugin's own verdict on instance p: ValidateConfig returns an error.
ConfigInvalid(p) ==
    IF p.kind = "devcycle" THEN DevCycleValidateConfig(p) # NoError
    ELSE DefaultValidateConfig(p) # NoError

\* C17: Pull, Push and Compare on an instance that was never configured or
\* whose ValidateConfig fails return an error and a nil result without any
\* network request; a Push whose initial fetch fails returns a nil result and
\* an error and has issued the fetch only.
C17_PreconditionFailureAborts ==
    lastCall.op \in {"Pull", "Push", "Compare"} =>
        LET p == instances[lastCall.inst] IN
        /\ (p.configures = 0 \/ ConfigInvalid(p)) =>
              /\ lastCall.err # NoError
              /\ lastCall.out = <<>>
              /\ lastCall.reqs = <<>>
        /\ (lastCall.op = "Push" /\ lastCall.err = FetchFailed) =>
              /\ lastCall.out = <<>>
              /\ Len(lastCall.reqs) = 1
              /\ ~IsMutation(lastCall.reqs[1])

\* The Required fields that the configuration last passed to Configure lacks.
MissingRequired(p) ==
    {f \in Required(p.kind) : p.config[f] \in {Absent, ""}}

\* C18: on a configured instance ValidateConfig returns nil exactly when the
\* configuration last passed to Configure has every Required field of the
\* plugin's schema, and otherwise an ErrConfigInvalid with the plugin's name
\* and a message that names a missing field.
C18_ValidateConfigMatchesRequired ==
    (lastCall.op = "ValidateConfig" /\ instances[lastCall.inst].configures > 0) =>
        LET p == instances[lastCall.inst] IN
        /\ lastCall.err = NoError <=> MissingRequired(p) = {}
        /\ MissingRequired(p) # {} =>
              /\ lastCall.err.kind = "ErrConfigInvalid"
              /\ lastCall.err.plugin = p.kind
              /\ FieldsNamed(lastCall.err.message) \cap MissingRequired(p) # {}

(***************************************************************************)
(* Properties of the push command's plugin path (checked under             *)
(* SpecCommand)                                                            *)
(***************************************************************************)

\* The calls pushWithPlugin makes, in the order of its code.
PushCallOrder == <<"Get", "Configure", "ValidateConfig", "HasCapability", "Push">>

PushCalled(c) == \E k \in DOMAIN c.calls : c.calls[k].name = "Push"

\* C19: pushWithPlugin calls the plugin's Push only after plugin.Get,
\* Configure and ValidateConfig succeeded, in that order, and HasCapability
\* returned true; when one of these steps fails the command returns an error
\* and makes no further call, so Push is not called and no server changes.
C19_PushGatedOnCapability ==
    /\ [](cmd.ran =>
            /\ Len(cmd.calls) \in 1..Len(PushCallOrder)
            /\ \A k \in DOMAIN cmd.calls : cmd.calls[k].name = PushCallOrder[k]
            /\ \A k \in DOMAIN cmd.calls : k < Len(cmd.calls) => cmd.calls[k].ok
            /\ PushCalled(cmd) =>
                  /\ Len(cmd.calls) = Len(PushCallOrder)
                  /\ HasCapability(cmd.plugin, "push")
            /\ (\E k \in DOMAIN cmd.calls : k < Len(PushCallOrder) /\ ~cmd.calls[k].ok) =>
                  /\ cmd.err # NilError
                  /\ ~PushCalled(cmd)
                  /\ cmd.result = <<>>
            /\ cmd.err = NilError <=> (PushCalled(cmd) /\ cmd.calls[Len(cmd.calls)].ok))
    /\ [][servers' # servers => PushCalled(cmd')]_vars

\* The command pushed the sample flag through the DevCycle plugin: all five
\* calls were made and succeeded, and the server holds the flag.
C19_Witness ==
    /\ cmd.ran /\ cmd.plugin = "devcycle" /\ ~cmd.dryRun
    /\ Len(cmd.calls) = Len(PushCallOrder)
    /\ \A k \in DOMAIN cmd.calls : cmd.calls[k].ok
    /\ cmd.err = NilError
    /\ servers["devcycle"] # <<>>

\* C20: when HasCapability says the plugin cannot push, the command returns
\* an ErrNotSupported value with the plugin's name and the operation "push",
\* whose message is `plugin "<name>" does not support <operation> operation`.
C20_MissingCapabilityIsErrNotSupported ==
    (cmd.ran /\ Len(cmd.calls) = 4 /\ ~cmd.calls[4].ok) =>
        cmd.err = ErrNotSupported(cmd.plugin, "push")

(***************************************************************************)
(* Properties of one plugin operation, request by request (checked under   *)
(* SpecRun)                                                                *)
(***************************************************************************)

LastRequest == wire[Len(wire)]
AuthRefused == run.callErr.kind = "status" /\ run.callErr.message = "authentication failed"

ApiStatusOf(w) == w[Len(w)].status
ApiAnswered == run.pc = "apiwait" /\ run'.pc = "returned" /\ ApiStatusOf(wire') # GaveUp

\* C22: whenever the Management API answers GetVariables,
\* CreateFeatureWithVariable or UpdateVariable with a status outside 200..299
\* the call returns an error that carries the status and the body; such an
\* answer is never taken for a success: GetVariables yields no variables,
\* the operation yields no flags from it, and the flag of a refused create
\* or update is entered into Errors, not into Created or Updated.
C22_Non2xxIsAnError ==
    /\ [][(ApiAnswered /\ ~Is2xx(ApiStatusOf(wire'))) =>
            /\ run'.callErr.kind = "status"
            /\ run'.callErr.status = ApiStatusOf(wire')
            /\ run'.callErr.body = wire'[Len(wire')].body
            /\ run'.variables = run.variables
            /\ remote' = remote]_vars
    /\ [][(run.pc = "returned" /\ run.callErr.kind = "status" /\ run'.pc # "returned") =>
            IF run.call.name = "GetVariables"
            THEN /\ run'.pc = "done"
                 /\ run'.err = run.callErr
                 /\ run'.out = <<>>
            ELSE /\ run'.result.Created = run.result.Created
                 /\ run'.result.Updated = run.result.Updated
                 /\ run'.result.Unchanged = run.result.Unchanged
                 /\ Len(run'.result.Errors) = Len(run.result.Errors) + 1
                 /\ run'.result.Errors[Len(run'.result.Errors)].cause = run.callErr]_vars

\* The API refuses an update with 404 and a create with 500.
C22_Witness ==
    /\ run.pc = "returned"
    /\ run.call.name = "CreateFeatureWithVariable"
    /\ run.callErr = StatusError("failed to create feature", 500, "try later")
    /\ Len(run.result.Errors) = 1
    /\ run.result.Errors[1].cause = StatusError("failed to update variable", 404, "denied")

\* The places where an operation waits on the network: for c.tokenMu held by
\* another goroutine's exchange, for the token endpoint, for the API.
SuspensionPoints == {"lock", "authwait", "apiwait"}
CancelledWhileWaiting == run.cancelled /\ run.cancelledIn \in SuspensionPoints

\* C23: when the caller's context is cancelled while a Pull, Push or Compare
\* waits for the token lock, the token exchange or an API request, the
\* operation sends no further request, eventually returns, and returns the
\* cancellation as a non-nil error and no result.
C23_CancellationEndsTheOperation ==
    /\ [](CancelledWhileWaiting => Len(wire) = run.cancelledAt)
    /\ [](CancelledWhileWaiting /\ run.pc = "done" => run.err.kind = "context" /\ run.out = <<>>)
    /\ (CancelledWhileWaiting ~> run.pc = "done")

\* The create and update requests on the wire, and where a key stands in
\* the local flagset.
IsWrite(w) == w.kind = "api" /\ w.method # "GET"
PositionOf(key) == CHOOSE i \in DOMAIN local : local[i].Key = key
InLocalOrder(flags) ==
    \A i, j \in DOMAIN flags : i < j => PositionOf(flags[i].Key) < PositionOf(flags[j].Key)

\* C25: within one Push the create and update requests go out one at a time
\* in the order of the local flagset: a request is sent only when every
\* earlier request has got its answer (or was given up), the requests for
\* two flags are sent in the flags' local order, and Created and Updated
\* list their flags in that order.
C25_PushIsSequentialInLocalOrder ==
    /\ [](\A i \in DOMAIN wire : i < Len(wire) => wire[i].status # Pending)
    /\ [](\A i, j \in DOMAIN wire :
             (i < j /\ IsWrite(wire[i]) /\ IsWrite(wire[j])) =>
                PositionOf(wire[i].key) < PositionOf(wire[j].key))
    /\ [](InLocalOrder(run.result.Created) /\ InLocalOrder(run.result.Updated))
    /\ [](run.pc = "done" /\ run.out # <<>> /\ run.op = "Push" =>
             InLocalOrder(run.out[1].Created) /\ InLocalOrder(run.out[1].Updated))

\* A Push has created alpha and then beta with two answered requests.
C25_Witness ==
    /\ run.pc = "done"
    /\ run.op = "Push"
    /\ run.out # <<>>
    /\ Len(run.out[1].Created) = 2
    /\ Len(SelectSeq(wire, IsWrite)) = 2
    /\ \A i \in DOMAIN wire : IsWrite(wire[i]) => Is2xx(wire[i].status)

(***************************************************************************)
(* Further properties of Push and Compare (checked under SpecSync)         *)
(***************************************************************************)

\* The remote entry of a key as a flag, and the equality of the rule: key,
\* type and description equal and the defaults' renderings equal.
RemoteAsFlag(entry) == IF backend = "devcycle" THEN variableToFlag(entry) ELSE entry
RenderedEqual(a, b) ==
    /\ a.Key = b.Key
    /\ a.Type = b.Type
    /\ a.Description = b.Description
    /\ Sprintf_v(a.DefaultValue) = Sprintf_v(b.DefaultValue)
FollowsEqualityRule(h, k) ==
    LET same == RenderedEqual(FlagMap(local)[k], RemoteAsFlag(h.before[k])) IN
    /\ k \in KeysOf(h.result.Unchanged) <=> same
    /\ h.op = "Compare" => (k \in KeysOf(h.result.Modified) <=> ~same)
    /\ (h.op = "Push" /\ ~same /\ k \notin h.failed) => k \in KeysOf(h.result.Updated)

\* C24: Compare and Push classify a key that is on both sides as Unchanged
\* exactly when key, type and description are equal and the defaults render
\* to the same string, and as Modified (Compare) or Updated (Push) otherwise.
C24_EqualityRule ==
    \A i \in DOMAIN hist :
        ~hist[i].err =>
            \A k \in KeysOf(local) \cap DOMAIN hist[i].before : FollowsEqualityRule(hist[i], k)

(***************************************************************************)
(* Properties of loading and saving manifests (checked under SpecFiles)    *)
(***************************************************************************)

\* The type strings a loader has to parse in the document it read: those of
\* the members that json.Unmarshal keeps.
TypeStringsRead ==
    IF flagset.from = "manifest"
    THEN {MemberMap(flagset.doc.members)[k].flagType : k \in DOMAIN MemberMap(flagset.doc.members)}
    ELSE {flagset.doc.members[i].flagType : i \in DOMAIN flagset.doc.members}
KnownTypeNames ==
    {"integer", "Integer", "float", "Float", "Number", "boolean", "bool", "Boolean",
     "string", "String", "object", "Object", "JSON"}
LoadersRejectUnknownTypes ==
    (flagset.from \in {"manifest", "source"} /\ flagset.doc.valid) =>
        /\ (TypeStringsRead \subseteq KnownTypeNames) <=> flagset.err = NoParseError
        /\ flagset.err # NoParseError =>
              /\ flagset.err.kind = "unknown flag type"
              /\ flagset.err.arg \in TypeStringsRead \ KnownTypeNames
        /\ flagset.err = NoParseError =>
              \A i \in DOMAIN flagset.Flags : flagset.Flags[i].Type # UnknownFlagType
PullKeepsEveryVariable ==
    flagset.from = "pull" =>
        \/ flagset.err # NoParseError
        \/ KeysOf(flagset.Flags) = DOMAIN remote

\* C26: an unknown flag type is a hard error and is never coerced or
\* dropped: UnmarshalJSON and LoadFromSourceFlags (through ParseFlagType)
\* fail exactly when a type string they read is not a known name, and a Pull
\* either fails or returns a flag for every variable of the project, also
\* for a variable whose type the plugin does not know.
C26_UnknownTypeIsHardError ==
    /\ LoadersRejectUnknownTypes
    /\ PullKeepsEveryVariable

Ascending(flags) ==
    \A i, j \in DOMAIN flags : i < j => KeyRank(flags[i].Key) < KeyRank(flags[j].Key)
ManifestLoadIsSorted ==
    (flagset.from = "manifest" /\ flagset.err = NoParseError) => Ascending(flagset.Flags)

\* C27: a Flagset that UnmarshalJSON loaded from a manifest or that a
\* plugin's Pull returned holds its flags in strictly ascending key order,
\* so no key is repeated.
C27_FlagsetIsSortedByKey ==
    (flagset.from \in {"manifest", "pull"} /\ flagset.err = NoParseError) => Ascending(flagset.Flags)

UniqueKeys(flags) == \A i, j \in DOMAIN flags : flags[i].Key = flags[j].Key => i = j
SavedFlags == flagset.doc.of[1]
LoadedFromSaved == flagset.from = "manifest" /\ flagset.doc.of # <<>>

ExchangeSucceeded(c) == pc[c] = "exchange" /\ pc'[c] = "send" /\ accessToken' # ""
StoredWithMargin == \E n \in ExpiresInValues : tokenExpiry' = now + (n - ExpiryBuffer)
ValidAfterwards == accessToken' # "" /\ now' < tokenExpiry'
NoExchangeWhileValid ==
    \A c \in Callers : (pc[c] = "check" /\ accessToken # "" /\ now < tokenExpiry) => pc'[c] # "exchange"

\* C29: a successful exchange that returns a token and expires_in = n stores
\* the token with the expiry (time of the exchange) + (n - 60) and leaves the
\* client with a valid token, whatever n is; a request made while the stored
\* expiry lies ahead uses the token without another exchange.
C29_ExchangeLeavesValidToken ==
    /\ [][\A c \in Callers : ExchangeSucceeded(c) => (StoredWithMargin /\ ValidAfterwards)]_vars
    /\ [][NoExchangeWhileValid]_vars

(***************************************************************************)
(* Properties of process start (checked under SpecStart)                   *)
(***************************************************************************)

\* The registries an init function may meet, for the rule about panics.
Registries ==
    UNION {[S -> {PluginInfo(f) : f \in Factories}] : S \in SUBSET (Names \ {""})}

\* C30: once the process has started, the default manager holds exactly the
\* plugins "default" and "devcycle", each under its own name with the factory
\* its package registered, and List returns <<"default", "devcycle">>; an
\* init function whose Register returns an error panics and the process
\* never reaches main.
C30_BuiltinsRegisteredAtStart ==
    /\ [](Started =>
            /\ DOMAIN plugins = {"default", "devcycle"}
            /\ plugins["default"] = PluginInfo(NewDefaultPlugin)
            /\ plugins["devcycle"] = PluginInfo(NewPlugin)
            /\ \A n \in DOMAIN plugins : plugins[n].Name = n
            /\ List(plugins) = <<"default", "devcycle">>)
    /\ []((Started /\ lastOp.op = "List") => lastOp.out = <<"default", "devcycle">>)
    /\ [](\A m \in Registries, f \in {NewDefaultPlugin, NewPlugin} :
             /\ init(m, f).panicked <=> Metadata(f).Name \in DOMAIN m
             /\ init(m, f).panicked <=> init(m, f).err
             /\ init(m, f).panicked => init(m, f).plugins = m)
    /\ [][(boot # Main /\ lastOp'.op = "Register" /\ lastOp'.err) => boot' = Panicked]_vars
    /\ [][boot = Panicked => boot' = Panicked]_vars

\* The process has started and a command has listed the plugins.
C30_Witness ==
    /\ Started
    /\ lastOp.op = "List"
    /\ Cardinality(DOMAIN plugins) = 2

----------------------------------------------------------------------------
\* C31: HasCapability(p, cap) is true exactly when cap is an element of
\* p.Metadata().Capabilities, for every plugin and each of pull, push,
\* compare and delete; both built-in plugins declare pull, push and compare
\* and not delete; and asking an instance for its capabilities, before or
\* after Configure, changes neither the instance nor the remote state.
DeclaredByBuiltins == {CapabilityPull, CapabilityPush, CapabilityCompare}
HasCapabilityIsMembership ==
    \A kind \in CommandKinds, cap \in CapabilityValues :
        HasCapability(kind, cap) <=> cap \in Capabilities(kind)
BuiltinsDeclareThree ==
    \A kind \in Kinds : Capabilities(kind) = DeclaredByBuiltins
AnswerMatchesDeclaration ==
    lastCall.op = "HasCapability"
        => lastCall.out[1].has = (lastCall.out[1].cap \in DeclaredByBuiltins)
MetadataLeavesStateAlone ==
    lastCall'.op = "HasCapability" => instances' = instances /\ servers' = servers
C31_HasCapabilityIsMembership ==
    /\ [](HasCapabilityIsMembership /\ BuiltinsDeclareThree /\ AnswerMatchesDeclaration)
    /\ [][MetadataLeavesStateAlone]_vars
\* Witness: an instance that was never configured is asked for push and says yes.
C31_Witness ==
    /\ lastCall.op = "HasCapability"
    /\ instances[lastCall.inst].configures = 0
    /\ instances[lastCall.inst].kind = "devcycle"
    /\ lastCall.out[1] = [cap |-> CapabilityPush, has |-> TRUE]

----------------------------------------------------------------------------
\* C32: authenticate tests the token under the read lock first, so a caller
\* that enters with a non-empty token and now < expiry never goes on to
\* c.tokenMu.Lock(); the write lock is asked for only by a caller whose
\* first test missed, and such callers do not wait for one another.
AsksForWriteLock(c) == pc[c] = "idle" /\ pc'[c] = "lock"
StartsWaiting(c) == ~blocked[c] /\ blocked'[c]
WriteLockOnlyOnMiss ==
    \A c \in Callers : (AsksForWriteLock(c) \/ StartsWaiting(c)) => ~TokenValid
C32_FastPathUnderReadLock == [][WriteLockOnlyOnMiss]_vars

----------------------------------------------------------------------------
\* C33: every Push that returns a result accounts for each local flag
\* exactly once: the flag is in exactly one of Created, Updated and
\* Unchanged, or exactly one entry of Errors names it; so the four lists
\* together are as long as the local flagset, dry run or not.
TimesListed(flags, k) == Cardinality({i \in DOMAIN flags : flags[i].Key = k})
TimesFailed(errors, k) == Cardinality({i \in DOMAIN errors : errors[i].key = k})
AccountedOnce(result, flags) ==
    /\ \A k \in KeysOf(flags) :
          TimesListed(result.Created, k) + TimesListed(result.Updated, k)
            + TimesListed(result.Unchanged, k) + TimesFailed(result.Errors, k) = 1
    /\ Len(result.Created) + Len(result.Updated) + Len(result.Unchanged) + Len(result.Errors)
          = Len(flags)
PushesAccounted(kind) ==
    backend = kind => \A i \in Pushes : ~hist[i].err => AccountedOnce(hist[i].result, local)
C33_EveryFlagAccountedOnce == PushesAccounted("devcycle") /\ PushesAccounted("default")

----------------------------------------------------------------------------
\* C34: Compare and a dry-run Push of the same plugin, given the same local
\* flagset and the same remote state, classify alike: the keys of Added,
\* Modified and Unchanged are the keys of Created, Updated and Unchanged,
\* also for integer-typed local flags and for remote variables of a type
\* the plugin does not support.
SameClassification(compared, pushed) ==
    /\ KeysOf(compared.Added) = KeysOf(pushed.Created)
    /\ DiffKeys(compared.Modified) = KeysOf(pushed.Updated)
    /\ KeysOf(compared.Unchanged) = KeysOf(pushed.Unchanged)
ComparedAndPushedAlike(kind) ==
    backend = kind =>
        \A i \in Compares, j \in Pushes :
            (/\ ~hist[i].err /\ ~hist[j].err /\ hist[j].dryRun
             /\ hist[i].before = hist[j].before)
                => SameClassification(hist[i].result, hist[j].result)
C34_CompareAgreesWithPush ==
    ComparedAndPushedAlike("devcycle") /\ ComparedAndPushedAlike("default")

----------------------------------------------------------------------------
\* C35: flagToVariable followed by variableToFlag gives back the key, type,
\* description and default value of every flag of one of the five known
\* types; so after a real Push that created or updated a flag, a Pull would
\* return that flag with the type it was pushed with.
KnownFlagTypes == {IntType, FloatType, BoolType, StringType, ObjectType}
ThereAndBack(flag) == variableToFlag(flagToVariable(flag))
ConversionKeepsTheFlag ==
    /\ \A t \in KnownFlagTypes :
          /\ devCycleTypeToFlagType(flagTypeToDevCycleType(t)).ok
          /\ devCycleTypeToFlagType(flagTypeToDevCycleType(t)).type = t
    /\ \A i \in DOMAIN local : ThereAndBack(local[i]) = local[i]
PulledAsPushed(i, flags) ==
    \A j \in DOMAIN flags :
        /\ flags[j].Key \in DOMAIN hist[i].after
        /\ PulledFlags(<<hist[i].after[flags[j].Key]>>) = <<flags[j]>>
PullReturnsWhatWasPushed ==
    backend = "devcycle" =>
        \A i \in Pushes :
            (~hist[i].err /\ ~hist[i].dryRun)
                => /\ PulledAsPushed(i, hist[i].result.Created)
                   /\ PulledAsPushed(i, hist[i].result.Updated)
C35_ConversionRoundTrip == ConversionKeepsTheFlag /\ PullReturnsWhatWasPushed

----------------------------------------------------------------------------
\* C36: every API request carries "Bearer t" with t a non-empty access
\* token stored by a successful exchange: no request goes out with an empty
\* token, the token sent is the stored one, and a stored token is never
\* cleared, only replaced by the token of a later successful exchange.
NoRequestWithEmptyToken == \A c \in Callers : sent[c] # NotSent => sent[c] # ""
SendsTheStoredToken ==
    \A c \in Callers : (pc[c] = "send" /\ pc'[c] = "idle") => sent'[c] = accessToken
TokenNeverCleared == accessToken # "" => accessToken' # ""
TokenChangesByExchangeOnly ==
    accessToken' # accessToken => \E c \in Callers : pc[c] = "exchange" /\ pc'[c] = "send"
C36_BearerTokenOnEveryRequest ==
    /\ []NoRequestWithEmptyToken
    /\ [][SendsTheStoredToken /\ TokenNeverCleared /\ TokenChangesByExchangeOnly]_vars

----------------------------------------------------------------------------
\* C37: pushWithPlugin prints "No changes needed - all flags are already up
\* to date" only after a Push that classified every local flag as Unchanged
\* and returned no Errors; a run in which a create or update failed is not
\* reported as up to date.
ReportedUpToDate == \E i \in DOMAIN cmd.printed : cmd.printed[i].text = UpToDate
AllUnchanged(result) ==
    /\ KeysOf(result.Unchanged) = KeysOf(SampleFlags)
    /\ Len(result.Unchanged) = Len(SampleFlags)
    /\ result.Errors = <<>>
C37_UpToDateOnlyWhenNothingFailed ==
    (cmd.ran /\ ReportedUpToDate)
        => /\ cmd.err = NilError
           /\ cmd.result # <<>>
           /\ AllUnchanged(cmd.result[1])

----------------------------------------------------------------------------
\* C38: UnmarshalJSON is all-or-nothing. When it succeeds the Flagset holds
\* exactly the flags of the document, one per key; when it fails, on
\* malformed JSON or on an unknown flag type, the flag list is what it was
\* before the call (empty, for the new Flagset the manifest is loaded
\* into): never a partly filled list.
HoldsTheDocument ==
    LET m == MemberMap(flagset.doc.members)
    IN  /\ KeysOf(flagset.Flags) = DOMAIN m
        /\ Len(flagset.Flags) = Cardinality(DOMAIN m)
        /\ \A i \in DOMAIN flagset.Flags : flagset.Flags[i] = MemberFlag(m[flagset.Flags[i].Key])
SucceededWhole ==
    (flagset.from = "manifest" /\ flagset.err = NoParseError) => HoldsTheDocument
FailedUntouched ==
    (flagset.from = "manifest" /\ flagset.err # NoParseError) => flagset.Flags = <<>>
C38_UnmarshalIsAllOrNothing == SucceededWhole /\ FailedUntouched

----------------------------------------------------------------------------
\* C39: two Compare calls with the same local flagset and the same remote
\* state return identical results, the order of the entries of Added,
\* Modified, Unchanged and Removed included.
SameEntries(a, b) ==
    /\ KeysOf(a.Added) = KeysOf(b.Added)
    /\ DiffKeys(a.Modified) = DiffKeys(b.Modified)
    /\ KeysOf(a.Unchanged) = KeysOf(b.Unchanged)
    /\ KeysOf(a.Removed) = KeysOf(b.Removed)
    /\ Len(a.Added) = Len(b.Added) /\ Len(a.Modified) = Len(b.Modified)
    /\ Len(a.Unchanged) = Len(b.Unchanged) /\ Len(a.Removed) = Len(b.Removed)
ComparedTwice(i, j) ==
    /\ i \in Compares /\ j \in Compares
    /\ ~hist[i].err /\ ~hist[j].err
    /\ hist[i].before = hist[j].before
ComparesAgreeUpToOrder ==
    \A i, j \in DOMAIN hist : ComparedTwice(i, j) => SameEntries(hist[i].result, hist[j].result)
C39_CompareIsDeterministic ==
    \A i, j \in DOMAIN hist : ComparedTwice(i, j) => hist[i].result = hist[j].result

----------------------------------------------------------------------------
\* C40: no Manager call asks for the registry lock while it holds it (the
\* names are listed without locking, PrintPluginDetails calls Get before it
\* holds anything), so every call, once started, comes to its end and has
\* released the lock by then, also when a Register is waiting for the
\* write lock.
Holds(g) == g \in mu.readers \/ mu.writer = g \/ mu.pending = g
AsksForLock(g) == gor[g].pc = "lock"
NoLockHeldWhileAsking == \A g \in Goroutines : AsksForLock(g) => ~Holds(g)
AcquiresOnce ==
    \A g \in Goroutines :
        Cardinality({i \in DOMAIN mu.acquired : mu.acquired[i] = g}) <= 1
ReleasedWhenDone == \A g \in Goroutines : gor[g].pc \in {"idle", "done"} => ~Holds(g)
EveryCallReturns == \A g \in Goroutines : (gor[g].pc # "idle") ~> (gor[g].pc = "done")
C40_NoCallRelocks ==
    /\ [](NoLockHeldWhileAsking /\ AcquiresOnce /\ ReleasedWhenDone)
    /\ EveryCallReturns
\* Witness: a Get that missed has listed the names under its read lock while
\* a Register was waiting for the write lock.
C40_Witness ==
    \E g, w \in Goroutines :
        /\ gor[g].op = "Get" /\ gor[g].pc = "runlock" /\ gor[g].res.err
        /\ g \in mu.readers
        /\ mu.pending = w /\ gor[w].op = "Register" /\ gor[w].pc = "locking"

=============================================================================
